---- MODULE Spec2Model ----
(***************************************************************************)
(* State-machine model of the chainmetrics ingestion pipeline:             *)
(*   - RateLimitedFetcher._wait_for_rate_limit   (sliding 60 s window)     *)
(*   - BaseFetcher._make_request                 (tenacity retry loop)     *)
(*   - CoinGeckoFetcher.fetch_hbar_data          (payload mapping)         *)
(*   - CoinGeckoFetcher.save_hbar_data           (INSERT OR REPLACE)       *)
(*   - HederaTokenFetcher.fetch_data / save_token_data                     *)
(*   - schedulers/tasks.py                       (start/stop, job runs)    *)
(*   - api/endpoints.py                          (refresh, current)        *)
(* Each component has its own specification over the shared variables; a    *)
(* specification leaves the variables of the other components unchanged.    *)
(***************************************************************************)
EXTENDS Integers, Sequences, FiniteSets, TLC

VARIABLES
    \* ---- rate limiter (one RateLimitedFetcher instance) ----
    requests_per_minute,   \* self.requests_per_minute
    request_times,         \* self._request_times, a list of loop timestamps
    loop_time,             \* asyncio.get_event_loop().time(), in seconds
    rl_pc,                 \* per caller: "idle" or "sleeping" (inside asyncio.sleep)
    rl_call,               \* per caller: the suspended call's locals (now, wake, window)
    rl_log,                \* history: one entry per call that has returned
    \* ---- retrying request (one logical BaseFetcher._make_request call) ----
    rq_pc,                 \* "idle", "attempt", "backoff", "returned", "raised"
    rq_attempt,            \* tenacity's retry_state.attempt_number
    rq_outcomes,           \* history: outcome of every HTTP attempt made
    rq_sleeps,             \* history: every backoff delay slept, in seconds
    rq_raised,             \* history: exceptions that reached the caller
    \* ---- scheduler module (schedulers/tasks.py) and its job runs ----
    scheduler,             \* the module global: "None" or "running"
    jobs,                  \* ids of the jobs registered with the scheduler
    due,                   \* per job: run times that came due and are not yet processed
    instances,             \* per job: executions the executor counts as running
    last_fire,             \* what the last processing of hbar_data_fetch did
    start_pc,              \* "idle", or "boot" while start_schedulers awaits its first run
    cyc,                   \* per invocation of fetch_and_save_hbar_data: its position
    last_end,              \* per invocation slot: how its previous invocation ended
    last_call,             \* history: the last call of start / stop / status and its result
    response,              \* per endpoint invocation: the response its caller got
    \* ---- storage ----
    utcnow,                \* datetime.utcnow(), the clock that stamps records
    hbar_metrics,          \* table hbar_metrics: a set of rows, PRIMARY KEY (timestamp)
    st_log,                \* history: the save_hbar_data calls made directly
    \* ---- mapping of a market payload (fetch_hbar_data) ----
    payload,               \* the parsed body returned by _make_request
    mapped,                \* what fetch_hbar_data returned for it
    \* ---- token fetch (HederaTokenFetcher) ----
    tk_pc,                 \* "fetching", "fetched", "saved", "aborted"
    tk_i,                  \* index of the next id of POPULAR_TOKENS
    tk_req,                \* history: per id, what its token-info request came to
    tk_stats,              \* history: per id, whether its balances request gave a count
    tk_http,               \* history: per id, the HTTP requests issued and whether the limiter admitted them
    tokens_data,           \* the list fetch_data builds and returns
    tk_save,               \* history: the save_token_data call (result, time, prior rows)
    hedera_tokens,         \* table hedera_tokens: rows, PRIMARY KEY (timestamp, token_id)
    \* ---- HTTP session of the shared hedera_token_fetcher ----
    session,               \* self._session: 0 for None, or the number of a client
    open_sessions,         \* the clients created and not yet closed
    made_sessions,         \* number of clients created so far
    use_pc,                \* per use of the fetcher: "out", "in", "closing"
    use_reqs,              \* per use: the requests it has made since it entered
    in_flight,             \* per use: the session its awaited request was sent on, NoSession when none
    \* ---- mapping of a token payload (fetch_data, _fetch_token_stats) ----
    token_info,            \* the parsed body of the token-info request
    balances,              \* the "balances" list of the balances request
    token_data,            \* what the loop body made of them
    \* ---- read path of hbar_metrics ----
    last_read,             \* history: the last read, its result and the table before it
    \* ---- configuration ----
    configured             \* settings.coingecko.requests_per_minute

rateVars  == <<requests_per_minute, request_times, loop_time, rl_pc, rl_call, rl_log>>
retryVars == <<rq_pc, rq_attempt, rq_outcomes, rq_sleeps, rq_raised>>
schedVars == <<scheduler, jobs, due, instances, last_fire, start_pc, cyc, last_end>>
storeVars == <<utcnow, hbar_metrics, st_log>>
mapVars   == <<payload, mapped>>
tokVars   == <<tk_pc, tk_i, tk_req, tk_stats, tk_http, tokens_data, tk_save, hedera_tokens>>
sessVars  == <<session, open_sessions, made_sessions, use_pc, use_reqs, in_flight>>
tmapVars  == <<token_info, balances, token_data>>
vars == <<rateVars, retryVars, schedVars, last_call, response, storeVars, mapVars, tokVars,
         sessVars, tmapVars, last_read, configured>>

\* What each component's actions leave alone
others   == <<sessVars, tmapVars, last_read, configured>>
notRate  == <<retryVars, schedVars, last_call, response, storeVars, mapVars, tokVars, others>>
notRetry == <<rateVars, schedVars, last_call, response, storeVars, mapVars, tokVars, others>>
notSched == <<rateVars, retryVars, st_log, mapVars, tokVars, others>>
notStore == <<rateVars, retryVars, schedVars, last_call, response, mapVars, tokVars, others>>
notMap   == <<rateVars, retryVars, schedVars, last_call, response, storeVars, tokVars, others>>
notTok   == <<rateVars, retryVars, schedVars, last_call, response, hbar_metrics, st_log, mapVars,
              others>>
notSess  == <<rateVars, retryVars, schedVars, last_call, response, storeVars, mapVars, tokVars,
              tmapVars, last_read, configured>>
notTmap  == <<rateVars, retryVars, schedVars, last_call, response, storeVars, mapVars, tokVars,
              sessVars, last_read, configured>>
notRead  == <<rateVars, retryVars, schedVars, last_call, response, st_log, mapVars, tokVars,
              sessVars, tmapVars, configured>>

----------------------------------------------------------------------------
\* Generic helpers

Max(a, b) == IF a >= b THEN a ELSE b
Min(a, b) == IF a <= b THEN a ELSE b

Range(s) == {s[i] : i \in 1..Len(s)}

SetMin(S) == CHOOSE x \in S : \A y \in S : x <= y

----------------------------------------------------------------------------
\* Rate limiter: RateLimitedFetcher (base_fetcher.py 135-163)

\* Bounds of the exploration
Tick == 20
MaxTime == 140
MaxCalls == 3
MaxCeiling == 2

\* The trailing window, in seconds ("now - t < 60", "60 - (now - ...)")
WindowSec == 60

Callers == {"a", "b"}

NoCall == [now |-> 0, wake |-> 0, window |-> <<>>, arrival |-> 0]

\* self._request_times = [t for t in self._request_times if now - t < 60]
PruneWindow(times, now) == SelectSeq(times, LAMBDA t : now - t < WindowSec)

\* len(self._request_times) >= self.requests_per_minute
AtLimit(times) == Len(times) >= requests_per_minute

WaitTimeFromNewest(times, now) == WindowSec - (now - times[Len(times)])

\* wait_time = 60 - (now - self._request_times[0])
WaitTime(times, now) == WindowSec - (now - times[1])

RateIdle ==
    /\ requests_per_minute = 1
    /\ request_times = <<>>
    /\ loop_time = 0
    /\ rl_pc = [c \in Callers |-> "idle"]
    /\ rl_call = [c \in Callers |-> NoCall]
    /\ rl_log = <<>>

CallsBegun == Len(rl_log) + Cardinality({c \in Callers : rl_pc[c] = "sleeping"})

\* _wait_for_rate_limit up to its first suspension point (or to its return
\* when it does not sleep): read the clock, prune, test the ceiling, and
\* either sleep or append `now`.
WaitForRateLimitStep(c) ==
    /\ rl_pc[c] = "idle"
    /\ CallsBegun < MaxCalls
    /\ LET now    == loop_time
           pruned == PruneWindow(request_times, now)
       IN  IF AtLimit(pruned) /\ WaitTime(pruned, now) > 0
           THEN /\ request_times' = pruned
                /\ rl_pc' = [rl_pc EXCEPT ![c] = "sleeping"]
                /\ rl_call' = [rl_call EXCEPT ![c] =
                       [now |-> now, wake |-> now + WaitTime(pruned, now),
                        window |-> pruned, arrival |-> CallsBegun + 1]]
                /\ UNCHANGED rl_log
           ELSE /\ request_times' = Append(pruned, now)
                /\ rl_log' = Append(rl_log,
                       [now |-> now, window |-> pruned, slept |-> <<>>,
                        released |-> now, arrival |-> CallsBegun + 1])
                /\ UNCHANGED <<rl_pc, rl_call>>
    /\ UNCHANGED <<requests_per_minute, loop_time>>

\* A call of _wait_for_rate_limit on its own
WaitForRateLimit(c) ==
    /\ WaitForRateLimitStep(c)
    /\ UNCHANGED notRate

\* asyncio.sleep(wait_time) returns; the call appends the `now` it read
\* before sleeping and returns to its caller, which sends the request.
WakeUpStep(c) ==
    /\ rl_pc[c] = "sleeping"
    /\ loop_time >= rl_call[c].wake
    /\ request_times' = Append(request_times, rl_call[c].now)
    /\ rl_log' = Append(rl_log,
           [now |-> rl_call[c].now, window |-> rl_call[c].window,
            slept |-> <<rl_call[c].wake - rl_call[c].now>>,
            released |-> loop_time, arrival |-> rl_call[c].arrival])
    /\ rl_pc' = [rl_pc EXCEPT ![c] = "idle"]
    /\ rl_call' = [rl_call EXCEPT ![c] = NoCall]
    /\ UNCHANGED <<requests_per_minute, loop_time>>

WakeUp(c) ==
    /\ WakeUpStep(c)
    /\ UNCHANGED notRate

Wakes == {rl_call[c].wake : c \in {d \in Callers : rl_pc[d] = "sleeping"}}

\* The event loop's clock moves on; a pending timer fires when it is due.
AdvanceLoopTime ==
    /\ loop_time < MaxTime
    /\ \A w \in Wakes : loop_time < w
    /\ loop_time' = IF Wakes = {} THEN loop_time + Tick
                    ELSE Min(loop_time + Tick, SetMin(Wakes))
    /\ UNCHANGED <<requests_per_minute, request_times, rl_pc, rl_call, rl_log>>
    /\ UNCHANGED notRate

\* Calls issued one after another on the instance, as a fetch cycle does
\* (each request is awaited before the next is made).
SequentialCall(c) ==
    /\ \A d \in Callers : rl_pc[d] = "idle"
    /\ WaitForRateLimit(c)

NextRate ==
    \/ \E c \in Callers : SequentialCall(c)
    \/ \E c \in Callers : WakeUp(c)
    \/ AdvanceLoopTime

\* Calls made on one instance by tasks that run side by side on the event
\* loop: a call can begin while another is suspended in asyncio.sleep, and
\* timers that are due at the same time, or a timer that is due and a task
\* that is ready, run in an order the calls do not control.
NextRateConc ==
    \/ \E c \in Callers : WaitForRateLimit(c)
    \/ \E c \in Callers : WakeUp(c)
    \/ AdvanceLoopTime

\* self._request_times = [] (base_fetcher.py 142): the window of an instance
\* that has just been constructed
NewWindow == <<>>

\* A fetch-and-save cycle against CoinGecko, from its start to the sending
\* of its request: "async with CoinGeckoFetcher() as fetcher" (tasks.py 20,
\* endpoints.py 81 and 166) constructs an instance with the ceiling every
\* instance gets (coingecko.py 20) and a window of its own, and
\* fetch_hbar_data makes the one request of the cycle through
\* _wait_for_rate_limit. There is no suspension before the request is sent:
\* the window of a new instance is never at the ceiling. A manual refresh
\* can start a cycle at any time. request_times is the window of the
\* instance constructed last.
CycleRequest ==
    /\ \A d \in Callers : rl_pc[d] = "idle"
    /\ Len(rl_log) < MaxCalls
    /\ LET now    == loop_time
           pruned == PruneWindow(NewWindow, now)
       IN  /\ ~AtLimit(pruned)
           /\ request_times' = Append(pruned, now)
           /\ rl_log' = Append(rl_log,
                  [now |-> now, window |-> pruned, slept |-> <<>>,
                   released |-> now, arrival |-> CallsBegun + 1])
    /\ UNCHANGED <<requests_per_minute, loop_time, rl_pc, rl_call>>
    /\ UNCHANGED notRate

\* Cycles against one upstream, each with its own fetcher instance
NextUpstream ==
    \/ CycleRequest
    \/ AdvanceLoopTime

----------------------------------------------------------------------------
\* Configuration of the CoinGecko ceiling: CoinGeckoSettings (config.py
\* 21-27) and CoinGeckoFetcher.__init__ (coingecko.py 15-22)

\* Largest COINGECKO_REQUESTS_PER_MINUTE explored
MaxConfigured == 27

\* int(os.getenv("COINGECKO_REQUESTS_PER_MINUTE", "25"))
DefaultRequestsPerMinute == 25

\* The literal passed to super().__init__ as requests_per_minute
CoinGeckoRequestsPerMinute == 25

\* The environment leaves the variable unset
ConfigIdle == configured = DefaultRequestsPerMinute

\* The ceiling CoinGeckoFetcher.__init__ hands to RateLimitedFetcher: it
\* reads base_url and api_key from settings.coingecko and passes
\* requests_per_minute as a literal.
CoinGeckoFetcherCeiling(settings_requests_per_minute) == CoinGeckoRequestsPerMinute

\* CoinGeckoFetcher(): a new instance, with that ceiling and an empty
\* window; the limiter of the cycle is this instance's.
ConstructCoinGeckoFetcher ==
    /\ \A d \in Callers : rl_pc[d] = "idle"
    /\ requests_per_minute' = CoinGeckoFetcherCeiling(configured)
    /\ request_times' = NewWindow
    /\ UNCHANGED <<loop_time, rl_pc, rl_call, rl_log>>
    /\ UNCHANGED notRate

\* Instances are constructed and send requests through their limiter. A
\* window of at most MaxCalls stamps stays below the ceiling every instance
\* gets, so no call sleeps.
NextConfig ==
    \/ ConstructCoinGeckoFetcher
    \/ \E c \in Callers : SequentialCall(c)
    \/ AdvanceLoopTime

----------------------------------------------------------------------------
\* Retrying HTTP client: BaseFetcher._make_request (base_fetcher.py 54-84)

\* What one HTTP attempt can end in: a 2xx response with a JSON body, a 2xx
\* response whose body does not decode, a connection error, a timeout, or a
\* non-2xx status.
Outcomes == {"ok", "bad_body", "network", "timeout",
             "s500", "s503", "s429", "s404", "s400"}

StatusOutcomes == {"s500", "s503", "s429", "s404", "s400"}

RaisedBySwallowingDecodeError(o) ==
    CASE o \in StatusOutcomes         -> "HTTPStatusError"
      [] o \in {"network", "timeout"} -> "RequestError"
      [] OTHER                        -> "none"

\* The exception the body of _make_request raises for an attempt's outcome:
\* raise_for_status() raises httpx.HTTPStatusError for a non-2xx status,
\* session.get raises a httpx.RequestError subclass for connection errors and
\* timeouts, response.json() raises a ValueError (JSONDecodeError).
RaisedBy(o) ==
    CASE o \in StatusOutcomes         -> "HTTPStatusError"
      [] o \in {"network", "timeout"} -> "RequestError"
      [] o = "bad_body"               -> "ValueError"
      [] OTHER                        -> "none"

\* retry=retry_if_exception_type((httpx.RequestError, httpx.HTTPStatusError))
RetryIfExceptionType(exc) == exc \in {"RequestError", "HTTPStatusError"}

\* stop=stop_after_attempt(3)
MaxAttemptNumber == 3

StopAfterAttemptEarly(n) == n >= MaxAttemptNumber - 1

StopAfterAttempt(n) == n >= MaxAttemptNumber

\* wait=wait_exponential(multiplier=1, min=4, max=10):
\* max(max(0, min), min(multiplier * 2 ** (attempt_number - 1), max))
WaitMultiplier == 1
WaitMin == 4
WaitMax == 10

WaitExponential(n) ==
    Max(Max(0, WaitMin), Min(WaitMultiplier * (2 ^ (n - 1)), WaitMax))

RetryIdle ==
    /\ rq_pc = "idle"
    /\ rq_attempt = 0
    /\ rq_outcomes = <<>>
    /\ rq_sleeps = <<>>
    /\ rq_raised = <<>>

\* The caller awaits _make_request: tenacity starts attempt number 1.
RqStart ==
    /\ rq_pc = "idle"
    /\ rq_pc' = "attempt"
    /\ rq_attempt' = 1
    /\ UNCHANGED <<rq_outcomes, rq_sleeps, rq_raised>>
    /\ UNCHANGED notRetry

\* One run of the function body, then tenacity's decision: return the
\* parsed body; or, for an exception the retry predicate accepts, sleep and
\* go round again unless the stop condition holds; otherwise re-raise.
RqAttempt(o) ==
    /\ rq_pc = "attempt"
    /\ rq_outcomes' = Append(rq_outcomes, o)
    /\ IF RaisedBy(o) = "none"
       THEN /\ rq_pc' = "returned"
            /\ UNCHANGED <<rq_sleeps, rq_raised, rq_attempt>>
       ELSE IF RetryIfExceptionType(RaisedBy(o)) /\ ~StopAfterAttempt(rq_attempt)
       THEN /\ rq_pc' = "backoff"
            /\ rq_sleeps' = Append(rq_sleeps, WaitExponential(rq_attempt))
            /\ UNCHANGED <<rq_raised, rq_attempt>>
       ELSE /\ rq_pc' = "raised"
            /\ rq_raised' = Append(rq_raised, RaisedBy(o))
            /\ UNCHANGED <<rq_sleeps, rq_attempt>>
    /\ UNCHANGED notRetry

\* The backoff sleep ends; tenacity increments attempt_number.
RqBackoffDone ==
    /\ rq_pc = "backoff"
    /\ rq_pc' = "attempt"
    /\ rq_attempt' = rq_attempt + 1
    /\ UNCHANGED <<rq_outcomes, rq_sleeps, rq_raised>>
    /\ UNCHANGED notRetry

NextRetry ==
    \/ RqStart
    \/ \E o \in Outcomes : RqAttempt(o)
    \/ RqBackoffDone

----------------------------------------------------------------------------
\* RateLimitedFetcher._make_request (base_fetcher.py 160-163): the limiter,
\* then the retried request of BaseFetcher

\* Logical requests explored
MaxLimitedCalls == 2

\* What the variables of neither the limiter nor the retry hold
notLimited == <<schedVars, last_call, response, storeVars, mapVars, tokVars, others>>

\* The task that makes the requests
LimitedCaller == "a"

\* Outcomes of an attempt: a body, a retried failure, a failure not retried
LimitedOutcomes == {"ok", "network", "bad_body"}

RetriedWithLimiter == {"_wait_for_rate_limit", "get"}

\* What one attempt of tenacity runs: @retry decorates
\* BaseFetcher._make_request (base_fetcher.py 54-60); the override in
\* RateLimitedFetcher is not decorated and awaits _wait_for_rate_limit
\* before it calls super()._make_request.
Retried == {"get"}

\* Attempt number 1 of super()._make_request
FirstAttempt ==
    /\ rq_pc' = "attempt"
    /\ rq_attempt' = 1
    /\ UNCHANGED <<rq_outcomes, rq_sleeps, rq_raised>>

\* The next attempt after a backoff
NextAttempt ==
    /\ rq_pc' = "attempt"
    /\ rq_attempt' = rq_attempt + 1
    /\ UNCHANGED <<rq_outcomes, rq_sleeps, rq_raised>>

\* A caller awaits RateLimitedFetcher._make_request: _wait_for_rate_limit
\* runs to its return or to its sleep; when it returns, the first attempt
\* of super()._make_request begins.
LimitedMakeRequest ==
    /\ rq_pc = "idle"
    /\ CallsBegun < MaxLimitedCalls
    /\ WaitForRateLimitStep(LimitedCaller)
    /\ IF rl_pc'[LimitedCaller] = "idle" THEN FirstAttempt ELSE UNCHANGED retryVars
    /\ UNCHANGED notLimited

\* The limiter's sleep ends: the stamp is appended and the attempt the
\* limiter was holding back begins.
LimitedWakeUp ==
    /\ WakeUpStep(LimitedCaller)
    /\ IF rq_pc = "backoff" THEN NextAttempt ELSE FirstAttempt
    /\ UNCHANGED notLimited

\* The backoff sleep ends and tenacity runs what it wraps once more.
LimitedBackoffDone ==
    /\ rq_pc = "backoff"
    /\ rl_pc[LimitedCaller] = "idle"
    /\ IF "_wait_for_rate_limit" \in Retried
       THEN /\ WaitForRateLimitStep(LimitedCaller)
            /\ IF rl_pc'[LimitedCaller] = "idle" THEN NextAttempt
               ELSE UNCHANGED retryVars
       ELSE /\ NextAttempt
            /\ UNCHANGED rateVars
    /\ UNCHANGED notLimited

\* The awaited call returns the body or raises to its caller.
LimitedReturn ==
    /\ rq_pc \in {"returned", "raised"}
    /\ rq_pc' = "idle"
    /\ rq_attempt' = 0
    /\ UNCHANGED <<rq_outcomes, rq_sleeps, rq_raised>>
    /\ UNCHANGED rateVars
    /\ UNCHANGED notLimited

\* Requests made one after another through the limiter, each with its
\* attempts, while the loop's clock moves
NextLimited ==
    \/ LimitedMakeRequest
    \/ LimitedWakeUp
    \/ \E o \in LimitedOutcomes : RqAttempt(o)
    \/ LimitedBackoffDone
    \/ LimitedReturn
    \/ AdvanceLoopTime

----------------------------------------------------------------------------
\* Storage: table hbar_metrics (models.py 75-86) and
\* CoinGeckoFetcher.save_hbar_data (coingecko.py 92-117)

MaxStamp == 1
MaxSaves == 2

Timestamps == 0..MaxStamp

\* Values a numeric column can hold here: the default 0 and a mapped value.
MappedPrice == 7
Prices == {0, MappedPrice}

\* A record (HBARMetrics) / a row. price_usd stands for the six value
\* columns, which the statement writes in the same way.
HbarRecords == [timestamp : Timestamps, price_usd : Prices]

\* The exception classes that derive from Exception. A task's cancellation
\* (asyncio.CancelledError) derives from BaseException and is not among them.
ExceptionClasses == {"HTTPStatusError", "RequestError", "ValueError",
                     "AttributeError", "OverflowError", "DatabaseError"}

CaughtOnlyHttpErrors(e) == e \in {"HTTPStatusError", "RequestError"}

\* "except Exception as e:" (coingecko.py 57, 115; tasks.py 31, 76)
CaughtByExceptException(e) == e \in ExceptionClasses

\* PRIMARY KEY (timestamp): the rows of the table that hold the key of r
SameKey(table, r) == {x \in table : x.timestamp = r.timestamp}

InsertPlain(table, r) ==
    IF SameKey(table, r) # {}
    THEN [ok |-> FALSE, table |-> table]
    ELSE [ok |-> TRUE, table |-> table \cup {r}]

\* INSERT OR REPLACE INTO hbar_metrics (...) VALUES (...): the row that holds
\* the key, if any, is replaced. ok = FALSE stands for a constraint error.
InsertOrReplace(table, r) ==
    [ok |-> TRUE, table |-> (table \ SameKey(table, r)) \cup {r}]

\* save_hbar_data(hbar_data). dbfail: db_manager.execute raises for a reason
\* of its own (connection, I/O). The result is the returned bool, the table
\* afterwards, and whether an exception left the method.
SaveHbarData(table, r, dbfail) ==
    LET w == IF dbfail THEN [ok |-> FALSE, table |-> table]
             ELSE InsertOrReplace(table, r)
    IN  IF w.ok
        THEN [ok |-> TRUE, table |-> w.table, escaped |-> FALSE]
        ELSE [ok |-> FALSE, table |-> w.table,
              escaped |-> ~CaughtByExceptException("DatabaseError")]

ValidTables ==
    {t \in SUBSET HbarRecords : \A x \in t, y \in t : x.timestamp = y.timestamp => x = y}

StoreIdle ==
    /\ utcnow = 0
    /\ hbar_metrics = {}
    /\ st_log = <<>>

\* A caller saves record r.
StoreSave(r, dbfail) ==
    /\ Len(st_log) < MaxSaves
    /\ LET res == SaveHbarData(hbar_metrics, r, dbfail) IN
       /\ hbar_metrics' = res.table
       /\ st_log' = Append(st_log,
              [rec |-> r, dbfail |-> dbfail, ok |-> res.ok,
               escaped |-> res.escaped, after |-> res.table])
    /\ UNCHANGED utcnow
    /\ UNCHANGED notStore

NextStore == \E r \in HbarRecords, dbfail \in BOOLEAN : StoreSave(r, dbfail)

----------------------------------------------------------------------------
\* Defensive coercion: BaseFetcher._safe_float / _safe_int
\* (base_fetcher.py 116-132)

\* A value taken from a parsed JSON body with dict.get: the key is missing
\* or null (None either way), a number, a string that spells a number, a
\* string that does not, a list, or a number too large for a double (inf).
LeafKinds == {"missing", "null", "num", "numstr", "badstr", "list", "inf"}

Leaf(k) == [k |-> k, v |-> IF k \in {"num", "numstr"} THEN 7 ELSE 0]

Leaves == {Leaf(k) : k \in LeafKinds}

\* The exception float(value) / int(value) raises, if any
FloatRaises(x) ==
    CASE x.k = "badstr" -> "ValueError"
      [] x.k = "list"   -> "TypeError"
      [] OTHER          -> "none"

IntRaises(x) ==
    CASE x.k = "badstr" -> "ValueError"
      [] x.k = "list"   -> "TypeError"
      [] x.k = "inf"    -> "OverflowError"
      [] OTHER          -> "none"

SafeFloatNoNoneCheck(x, default) ==
    IF x.k \in {"missing", "null"}
    THEN [raised |-> "TypeError", value |-> 0, inf |-> FALSE]
    ELSE IF FloatRaises(x) \in {"ValueError", "TypeError"}
    THEN [raised |-> "none", value |-> default, inf |-> FALSE]
    ELSE [raised |-> "none", value |-> x.v, inf |-> x.k = "inf"]

\* _safe_float(value, default): None gives the default; float(value) is
\* tried and ValueError / TypeError give the default.
SafeFloat(x, default) ==
    IF x.k \in {"missing", "null"}
    THEN [raised |-> "none", value |-> default, inf |-> FALSE]
    ELSE IF FloatRaises(x) \in {"ValueError", "TypeError"}
    THEN [raised |-> "none", value |-> default, inf |-> FALSE]
    ELSE [raised |-> "none", value |-> x.v, inf |-> x.k = "inf"]

\* _safe_int(value, default): as _safe_float with int(value); an exception
\* other than ValueError / TypeError is not caught.
SafeInt(x, default) ==
    IF x.k \in {"missing", "null"}
    THEN [raised |-> "none", value |-> default, inf |-> FALSE]
    ELSE IF IntRaises(x) \in {"ValueError", "TypeError"}
    THEN [raised |-> "none", value |-> default, inf |-> FALSE]
    ELSE IF IntRaises(x) # "none"
    THEN [raised |-> IntRaises(x), value |-> 0, inf |-> FALSE]
    ELSE [raised |-> "none", value |-> x.v, inf |-> FALSE]

----------------------------------------------------------------------------
\* Mapping: CoinGeckoFetcher.fetch_hbar_data (coingecko.py 45-59)

\* A per-currency object of the payload ("current_price", "market_cap",
\* "total_volume"): missing, null, a value that is no dict, or a dict whose
\* "usd" entry is a leaf.
ObjOf(leafs) ==
    {[k |-> "missing", usd |-> Leaf("missing")],
     [k |-> "null", usd |-> Leaf("missing")],
     [k |-> "notdict", usd |-> Leaf("missing")]}
    \cup {[k |-> "dict", usd |-> x] : x \in leafs}

PlainLeaves == {Leaf("missing"), Leaf("num")}

Payloads ==
    [market_data : {"missing", "null", "dict"},
     current_price : ObjOf(Leaves),
     market_cap : ObjOf(PlainLeaves) \ {[k |-> "notdict", usd |-> Leaf("missing")]},
     total_volume : ObjOf(PlainLeaves) \ {[k |-> "notdict", usd |-> Leaf("missing")]},
     price_change_percentage_24h : Leaves,
     circulating_supply : {Leaf("null"), Leaf("num")},
     market_cap_rank : Leaves]

NoRecord == [price_usd |-> 0, market_cap |-> 0, volume_24h |-> 0,
             price_change_24h |-> 0, circulating_supply |-> 0,
             market_cap_rank |-> 0, inf |-> {}]

\* market_data.get(name, {}).get("usd"): a missing object is replaced by {},
\* whose "usd" is None; .get on None or on a non-dict raises AttributeError.
GetUsd(obj) ==
    CASE obj.k = "missing" -> [raised |-> "none", leaf |-> Leaf("missing")]
      [] obj.k = "dict"    -> [raised |-> "none", leaf |-> obj.usd]
      [] OTHER             -> [raised |-> "AttributeError", leaf |-> Leaf("missing")]

\* The fields of the payload as market_data.get sees them:
\* data.get("market_data", {}) is {} when the key is missing.
MarketData(pl) ==
    IF pl.market_data = "dict" THEN pl
    ELSE [pl EXCEPT !.current_price = [k |-> "missing", usd |-> Leaf("missing")],
                    !.market_cap = [k |-> "missing", usd |-> Leaf("missing")],
                    !.total_volume = [k |-> "missing", usd |-> Leaf("missing")],
                    !.price_change_percentage_24h = Leaf("missing"),
                    !.circulating_supply = Leaf("missing"),
                    !.market_cap_rank = Leaf("missing")]

\* The body of the try block: the first exception raised, if any, and the
\* HBARMetrics built otherwise.
BuildHbarMetrics(pl) ==
    LET md    == MarketData(pl)
        price == GetUsd(md.current_price)
        cap   == GetUsd(md.market_cap)
        vol   == GetUsd(md.total_volume)
        fp    == SafeFloat(price.leaf, 0)
        fc    == SafeFloat(cap.leaf, 0)
        fv    == SafeFloat(vol.leaf, 0)
        fch   == SafeFloat(md.price_change_percentage_24h, 0)
        fcs   == SafeFloat(md.circulating_supply, 0)
        ir    == SafeInt(md.market_cap_rank, 0)
        errs  == <<IF pl.market_data = "null" THEN "AttributeError" ELSE "none",
                   price.raised, fp.raised, cap.raised, fc.raised,
                   vol.raised, fv.raised, fch.raised, fcs.raised, ir.raised>>
        bad   == {i \in 1..Len(errs) : errs[i] # "none"}
    IN  IF bad # {}
        THEN [raised |-> errs[SetMin(bad)], rec |-> NoRecord]
        ELSE [raised |-> "none",
              rec |-> [price_usd |-> fp.value, market_cap |-> fc.value,
                       volume_24h |-> fv.value, price_change_24h |-> fch.value,
                       circulating_supply |-> fcs.value,
                       market_cap_rank |-> ir.value,
                       inf |-> {f \in {"price_usd", "price_change_24h"} :
                                  IF f = "price_usd" THEN fp.inf ELSE fch.inf}]]

MapIdle ==
    /\ payload = [market_data |-> "missing",
                  current_price |-> [k |-> "missing", usd |-> Leaf("missing")],
                  market_cap |-> [k |-> "missing", usd |-> Leaf("missing")],
                  total_volume |-> [k |-> "missing", usd |-> Leaf("missing")],
                  price_change_percentage_24h |-> Leaf("missing"),
                  circulating_supply |-> Leaf("null"),
                  market_cap_rank |-> Leaf("missing")]
    /\ mapped = [state |-> "pending", rec |-> NoRecord]

\* fetch_hbar_data once _make_request has returned the body: build the
\* record; "except Exception" logs and returns None.
MapFetchHbarData ==
    /\ mapped.state = "pending"
    /\ LET b == BuildHbarMetrics(payload) IN
       mapped' = IF b.raised = "none" THEN [state |-> "record", rec |-> b.rec]
                 ELSE IF CaughtByExceptException(b.raised)
                 THEN [state |-> "None", rec |-> NoRecord]
                 ELSE [state |-> "raised", rec |-> NoRecord]
    /\ UNCHANGED payload
    /\ UNCHANGED notMap

NextMap == MapFetchHbarData

----------------------------------------------------------------------------
\* Token fetch: HederaTokenFetcher.fetch_data / save_token_data
\* (hedera.py 40-171) and table hedera_tokens (models.py 101-119)

\* Number of ids taken from POPULAR_TOKENS
NumTokens == 3

\* POPULAR_TOKENS, in list order
TokenIds == 1..NumTokens

\* What the awaited token-info request comes to: a token object, an empty
\* object, a body that is no dict, or an exception after the retries.
InfoOutcomes == {"ok", "empty", "notdict", "HTTPStatusError", "ValueError"}

\* Pages of the balances request: lists of "balance" leaves
BalancePages == {<<>>, <<Leaf("num"), Leaf("null"), Leaf("numstr")>>,
                 <<Leaf("num"), Leaf("inf")>>}

\* What the balances request comes to
StatsOutcomes == {"page", "no_balances", "RequestError"}

\* holders_count = len([b for b in balances if _safe_int(b.get("balance", 0)) > 0])
HoldersCount(page) ==
    Cardinality({i \in 1..Len(page) : SafeInt(page[i], 0).value > 0})

\* What the try block of _fetch_token_stats raises: the exception of the
\* request, or the one _safe_int lets out for a balance it cannot convert
StatsRaises(so, page) ==
    IF so = "RequestError" THEN "RequestError"
    ELSE IF so = "page" /\ \E i \in 1..Len(page) : SafeInt(page[i], 0).raised # "none"
    THEN "OverflowError"
    ELSE "none"

\* The balances request gave no count: it raised, or its body has no
\* "balances" list
StatsFailed(so, page) == so # "page" \/ StatsRaises(so, page) # "none"

\* _fetch_token_stats: holders is the holders_count of the dict returned, or
\* -1 for None, returned for a body without balances and when "except
\* Exception" (hedera.py 112) catches; raised is an exception it lets out.
FetchTokenStats(so, page) ==
    LET exc == StatsRaises(so, page) IN
    IF exc # "none"
    THEN [raised |-> IF CaughtByExceptException(exc) THEN "none" ELSE exc,
          holders |-> -1]
    ELSE [raised |-> "none",
          holders |-> IF so = "page" THEN HoldersCount(page) ELSE -1]

\* _fetch_token_info: the awaited body, or None when "except Exception"
\* catches; "escaped" when it does not.
FetchTokenInfo(io) ==
    IF io \in {"ok", "empty", "notdict"} THEN io
    ELSE IF CaughtByExceptException(io) THEN "None"
    ELSE "escaped"

TokRow(ts, t) == [timestamp |-> ts, token_id |-> t.token_id,
                  holders_count |-> t.holders_count]

\* db_manager.execute_many: the statement (a plain INSERT) is executed for
\* each parameter set in turn; a row whose key is already in the table, or
\* a failure of the database at row failAt, raises and ends the batch.
RECURSIVE InsertRows(_, _, _, _)
InsertRows(table, rows, i, failAt) ==
    IF i > Len(rows) THEN [ok |-> TRUE, table |-> table]
    ELSE IF i = failAt THEN [ok |-> FALSE, table |-> table]
    ELSE IF \E x \in table : x.timestamp = rows[i].timestamp
                             /\ x.token_id = rows[i].token_id
    THEN [ok |-> FALSE, table |-> table]
    ELSE InsertRows(table \cup {rows[i]}, rows, i + 1, failAt)

\* save_token_data(tokens_data): False for an empty list; deleted tokens are
\* left out; False when nothing is left; the batch insert; False when it
\* raises.
KeptTokensAll(data) == data

\* "if token.get("deleted", False): continue" (hedera.py 129-131)
KeptTokens(data) == SelectSeq(data, LAMBDA t : ~t.deleted)

SaveTokenData(table, data, now, failAt) ==
    IF data = <<>> THEN [ok |-> FALSE, table |-> table]
    ELSE LET kept   == KeptTokens(data)
             values == [i \in 1..Len(kept) |-> TokRow(now, kept[i])]
         IN  IF values = <<>> THEN [ok |-> FALSE, table |-> table]
             ELSE InsertRows(table, values, 1, failAt)

NoSave == [done |-> FALSE, ok |-> FALSE, time |-> 0, failAt |-> 0, prior |-> {}]

TokIdle ==
    /\ tk_pc = "fetching"
    /\ tk_i = 1
    /\ tk_req = [t \in TokenIds |-> "pending"]
    /\ tk_stats = [t \in TokenIds |-> "pending"]
    /\ tk_http = [t \in TokenIds |-> <<>>]
    /\ tokens_data = <<>>
    /\ tk_save = NoSave
    /\ hedera_tokens = {}

\* class HederaTokenFetcher(BaseFetcher) (hedera.py 9, 12): the classes whose
\* _make_request a request of the token fetcher goes through
TokenFetcherBases == {"BaseFetcher"}

\* Only RateLimitedFetcher._make_request awaits _wait_for_rate_limit before
\* the request (base_fetcher.py 160-163); BaseFetcher._make_request
\* (base_fetcher.py 54-84) goes straight to the retrying request.
AdmittedFirst(bases) == "RateLimitedFetcher" \in bases

\* "if token_info:" (hedera.py 50-52): the balances request follows for any
\* answer that is truthy
StatsRequested(info) == info \in {"ok", "notdict"}

\* The logical requests one turn of the loop issues through _make_request
HttpRequests(info) ==
    LET req(e) == [endpoint |-> e, admitted |-> AdmittedFirst(TokenFetcherBases)]
    IN  IF StatsRequested(info) THEN <<req("tokens/id"), req("tokens/id/balances")>>
        ELSE <<req("tokens/id")>>

\* One turn of the loop of fetch_data, for the id at tk_i: the token-info
\* request, then for a non-empty answer the balances request and the record.
\* The handler of the loop (hedera.py 78) logs and goes on to the next id.
TokFetchOne(io, deleted, so, page) ==
    /\ tk_pc = "fetching"
    /\ tk_i <= NumTokens
    /\ LET info  == FetchTokenInfo(io)
           stats == FetchTokenStats(so, page)
           rec   == [token_id |-> tk_i, deleted |-> deleted,
                     holders_count |-> stats.holders]
           exc   == IF info = "escaped" THEN io
                    ELSE IF info = "notdict" THEN "AttributeError"
                    ELSE IF info = "ok" THEN stats.raised
                    ELSE "none"
       IN  /\ tk_req' = [tk_req EXCEPT ![tk_i] = io]
           /\ tk_http' = [tk_http EXCEPT ![tk_i] = HttpRequests(info)]
           /\ tk_stats' = [tk_stats EXCEPT ![tk_i] =
                             IF ~StatsRequested(info) THEN "not_requested"
                             ELSE IF StatsFailed(so, page) THEN "failed"
                             ELSE "counted"]
           /\ IF exc # "none" /\ ~CaughtByExceptException(exc)
              THEN /\ tk_pc' = "aborted"
                   /\ UNCHANGED <<tk_i, tokens_data>>
              ELSE /\ tokens_data' = IF info = "ok" /\ exc = "none"
                                     THEN Append(tokens_data, rec)
                                     ELSE tokens_data
                   /\ tk_i' = tk_i + 1
                   /\ tk_pc' = IF tk_i = NumTokens THEN "fetched" ELSE "fetching"
    /\ UNCHANGED <<tk_save, hedera_tokens, utcnow>>
    /\ UNCHANGED notTok

\* The caller passes the list to save_token_data.
TokSave(failAt) ==
    /\ tk_pc = "fetched"
    /\ LET res == SaveTokenData(hedera_tokens, tokens_data, utcnow, failAt) IN
       /\ hedera_tokens' = res.table
       /\ tk_save' = [done |-> TRUE, ok |-> res.ok, time |-> utcnow,
                      failAt |-> failAt, prior |-> hedera_tokens]
    /\ tk_pc' = "saved"
    /\ UNCHANGED <<tk_i, tk_req, tk_stats, tk_http, tokens_data, utcnow>>
    /\ UNCHANGED notTok

\* The wall clock moves on during the fetch.
TokTick ==
    /\ tk_pc \in {"fetching", "fetched"}
    /\ utcnow < MaxStamp
    /\ utcnow' = utcnow + 1
    /\ UNCHANGED tokVars
    /\ UNCHANGED notTok

NextTok ==
    \/ \E io \in InfoOutcomes, deleted \in BOOLEAN, so \in StatsOutcomes,
          page \in BalancePages : TokFetchOne(io, deleted, so, page)
    \/ \E failAt \in 0..NumTokens : TokSave(failAt)
    \/ TokTick

----------------------------------------------------------------------------
\* Scheduler: schedulers/tasks.py, started and stopped by main.py's lifespan

MaxMissed == 2

JobIds == {"hbar_data_fetch", "scheduler_status"}

\* Invocations of fetch_and_save_hbar_data: those the executor starts for
\* the interval job, and the one start_schedulers awaits itself.
TimerRuns == {"t1", "t2"}
Runs == TimerRuns \cup {"boot"}

\* Invocations of the endpoints that fetch and save: refresh_hbar_data
\* (endpoints.py 162-185) and get_current_hbar_data (endpoints.py 77-105)
ApiRuns == {"manual", "current"}

AllRuns == Runs \cup ApiRuns

\* Where an invocation is suspended: at the awaited request, or at the
\* close of its session, by what it did before
InFlight == {"fetching", "closing_saved", "closing_save_failed",
             "closing_no_data", "closing_logged", "closing_raise",
             "closing_latest"}

TimerInFlight == {r \in TimerRuns : cyc[r] \in InFlight}

MaxInstancesTwo(j) == 2

\* add_job(..., max_instances=1) for both jobs
MaxInstances(j) == 1

\* add_job(..., coalesce=True) for hbar_data_fetch; the scheduler's default
\* for scheduler_status
Coalesce(j) == TRUE

\* What the awaited fetch_hbar_data comes to: a mapped record, or the
\* exception raised by _make_request (after its retries) or by the mapping.
FetchOutcomes == {"record", "HTTPStatusError", "RequestError", "ValueError",
                  "AttributeError"}

\* What get_scheduler_status returns: the run state and, per job, its id
\* and its next run time. A job's next run time is held relative to the
\* scheduler's clock: due[j] counts the run times of j at or before now.
NoReport == [running |-> FALSE, jobs |-> {}]

NoCallYet == [op |-> "none", did |-> "none", report |-> NoReport]

SchedulerStatusStopped == NoReport

\* get_scheduler_status (tasks.py 92-112)
SchedulerStatus ==
    IF scheduler = "None"
    THEN [running |-> FALSE, jobs |-> {}]
    ELSE [running |-> scheduler = "running",
          jobs |-> {[id |-> j, next_run |-> due[j]] : j \in jobs}]

AlreadyRunningNever == FALSE

\* "if scheduler is not None:" of start_schedulers (tasks.py 44)
AlreadyRunning == scheduler # "None"

SchedulerSetAlways == TRUE

\* "if scheduler is not None:" of stop_schedulers (tasks.py 84)
SchedulerSet == scheduler # "None"

InitialRunLeftToTimer == "idle"

\* "await fetch_and_save_hbar_data()" of start_schedulers (tasks.py 74-75):
\* the coroutine runs within the caller up to its first suspension, the
\* awaited request.
InitialRun == "fetching"

SchedIdle ==
    /\ scheduler = "None"
    /\ jobs = {}
    /\ due = [j \in JobIds |-> 0]
    /\ instances = [j \in JobIds |-> 0]
    /\ last_fire = "none"
    /\ start_pc = "idle"
    /\ cyc = [r \in AllRuns |-> "idle"]
    /\ last_end = [r \in AllRuns |-> "none"]
    /\ last_call = NoCallYet
    /\ response = [r \in ApiRuns |-> "none"]

\* start_schedulers (tasks.py 40-77), up to the first suspension of the
\* initial run it awaits: a no-op when the global is set; otherwise create
\* the scheduler, register both jobs, start it, and enter
\* fetch_and_save_hbar_data, which opens its fetcher and awaits the request.
StartSchedulers ==
    /\ start_pc = "idle"
    /\ IF AlreadyRunning
       THEN /\ UNCHANGED schedVars
            /\ last_call' = [op |-> "start", did |-> "noop", report |-> NoReport]
       ELSE /\ scheduler' = "running"
            /\ jobs' = JobIds
            /\ due' = [j \in JobIds |-> 0]
            /\ instances' = [j \in JobIds |-> 0]
            /\ cyc' = [cyc EXCEPT !["boot"] = InitialRun]
            /\ start_pc' = IF InitialRun = "idle" THEN "idle" ELSE "boot"
            /\ last_call' = [op |-> "start", did |-> "started", report |-> NoReport]
            /\ UNCHANGED <<last_fire, last_end>>
    /\ UNCHANGED <<utcnow, hbar_metrics>>
    /\ UNCHANGED response
    /\ UNCHANGED notSched

\* Time passes the next run time of job j.
IntervalElapses(j) ==
    /\ scheduler = "running"
    /\ j \in jobs
    /\ due[j] < MaxMissed
    /\ due' = [due EXCEPT ![j] = due[j] + 1]
    /\ UNCHANGED <<scheduler, jobs, instances, last_fire, start_pc, cyc, last_end>>
    /\ UNCHANGED <<utcnow, hbar_metrics>>
    /\ UNCHANGED <<last_call, response>>
    /\ UNCHANGED notSched

FreeSlots == {r \in TimerRuns : cyc[r] \notin InFlight}

\* The slots taken by n new runs: t1 before t2
SlotsFor(n) ==
    IF n = 0 THEN {}
    ELSE IF n = 1 THEN {IF "t1" \in FreeSlots THEN "t1" ELSE "t2"}
    ELSE FreeSlots

\* The scheduler wakes up and processes job j: the run times that are due
\* are coalesced into one submission (coalesce=True); a submission is run
\* unless max_instances executions of the job are already running, in which
\* case it is skipped; the job's next run time moves past now either way.
\* log_scheduler_status has no await: its run is over within the step.
TimerWakeup(j) ==
    /\ scheduler = "running"
    /\ j \in jobs
    /\ due[j] > 0
    /\ due' = [due EXCEPT ![j] = 0]
    /\ LET submitted == IF Coalesce(j) THEN 1 ELSE due[j]
           room      == Max(MaxInstances(j) - instances[j], 0)
           started   == Min(Min(submitted, room), Cardinality(FreeSlots))
       IN  IF j = "hbar_data_fetch"
           THEN /\ instances' = [instances EXCEPT ![j] = instances[j] + started]
                /\ cyc' = [r \in AllRuns |->
                             IF r \in SlotsFor(started) THEN "fetching" ELSE cyc[r]]
                /\ last_fire' = IF started > 0 THEN "started" ELSE "skipped"
           ELSE UNCHANGED <<instances, cyc, last_fire>>
    /\ UNCHANGED <<scheduler, jobs, start_pc, last_end>>
    /\ UNCHANGED <<utcnow, hbar_metrics>>
    /\ UNCHANGED <<last_call, response>>
    /\ UNCHANGED notSched

\* fetch_and_save_hbar_data (tasks.py 15-32) from the return of the awaited
\* request to the next suspension, the close of the session in __aexit__:
\* fetch_hbar_data maps the body or catches and returns None; a record is
\* saved; the outcome is logged. An exception that fetch_hbar_data or
\* save_hbar_data lets out meets "except Exception" of tasks.py 31 after the
\* close.
CycleFetchReturns(r, o, p, dbfail) ==
    /\ cyc[r] = "fetching"
    /\ LET rec     == [timestamp |-> utcnow, price_usd |-> p]
           escapes == o # "record" /\ ~CaughtByExceptException(o)
           saved   == SaveHbarData(hbar_metrics, rec, dbfail)
       IN  IF o # "record"
           THEN /\ cyc' = [cyc EXCEPT ![r] =
                             IF ~escapes THEN "closing_no_data"
                             ELSE IF CaughtByExceptException(o) THEN "closing_logged"
                             ELSE "closing_raise"]
                /\ UNCHANGED hbar_metrics
           ELSE /\ hbar_metrics' = saved.table
                /\ cyc' = [cyc EXCEPT ![r] =
                             IF saved.ok THEN "closing_saved"
                             ELSE IF ~saved.escaped THEN "closing_save_failed"
                             ELSE IF CaughtByExceptException("DatabaseError")
                                  THEN "closing_logged"
                             ELSE "closing_raise"]
    /\ UNCHANGED <<scheduler, jobs, due, instances, last_fire, start_pc, last_end>>
    /\ UNCHANGED utcnow
    /\ UNCHANGED <<last_call, response>>
    /\ UNCHANGED notSched

EndOf(status) ==
    CASE status = "closing_saved"       -> "saved"
      [] status = "closing_save_failed" -> "save_failed"
      [] status = "closing_no_data"     -> "no_data"
      [] status = "closing_logged"      -> "error_logged"
      [] status = "closing_latest"      -> "latest"
      [] OTHER                          -> "raised"

ApiResponseIgnoringSave(r, end) ==
    IF end \in {"latest", "saved", "save_failed"} THEN "200"
    ELSE IF end = "no_data" THEN "200_null"
    ELSE "500"

\* What an endpoint invocation that ended in `end` gives its caller.
\* refresh_hbar_data (endpoints.py 165-185): the success body only for a
\* record that was saved; otherwise HTTPException(500) is raised at 181,
\* caught at 183 and raised again at 185.
\* get_current_hbar_data (endpoints.py 80-105): the latest row, or the
\* fetched record whatever save_hbar_data returned (88-89), or None when
\* nothing was fetched; HTTPException(500) for an exception.
ApiResponse(r, end) ==
    IF r = "manual"
    THEN IF end = "saved" THEN "200" ELSE "500"
    ELSE IF end \in {"latest", "saved", "save_failed"} THEN "200"
    ELSE IF end = "no_data" THEN "200_null"
    ELSE "500"

\* The session is closed and the invocation ends. The executor then counts
\* one execution less of the job; start_schedulers returns after its own run.
CycleCloseDone(r) ==
    /\ cyc[r] \in InFlight \ {"fetching"}
    /\ cyc' = [cyc EXCEPT ![r] = "idle"]
    /\ last_end' = [last_end EXCEPT ![r] = EndOf(cyc[r])]
    /\ IF r \in TimerRuns
       THEN /\ instances' = [instances EXCEPT
                   !["hbar_data_fetch"] = instances["hbar_data_fetch"] - 1]
            /\ UNCHANGED <<start_pc, response>>
       ELSE IF r = "boot"
       THEN /\ start_pc' = "idle"
            /\ UNCHANGED <<instances, response>>
       ELSE /\ response' = [response EXCEPT ![r] = ApiResponse(r, EndOf(cyc[r]))]
            /\ UNCHANGED <<instances, start_pc>>
    /\ UNCHANGED <<scheduler, jobs, due, last_fire>>
    /\ UNCHANGED <<utcnow, hbar_metrics>>
    /\ UNCHANGED last_call
    /\ UNCHANGED notSched

JobsLeftRegistered == jobs

\* "scheduler.shutdown(wait=True)" and "scheduler = None" (tasks.py 85-86):
\* the scheduler object is shut down and dropped with its job store; the
\* module has no registered job until the next start creates a scheduler.
JobsAfterShutdown == {}

\* stop_schedulers (tasks.py 80-89), called by lifespan after start_schedulers
\* has returned (main.py 31-47). The function has no await: no invocation
\* takes a step while it runs. shutdown() makes the asyncio executor cancel
\* the executions that are still pending, and the global is reset.
StopSchedulers ==
    /\ start_pc = "idle"
    /\ IF ~SchedulerSet
       THEN /\ UNCHANGED schedVars
            /\ last_call' = [op |-> "stop", did |-> "noop", report |-> NoReport]
       ELSE IF scheduler = "None"
       THEN \* None.shutdown(...) raises AttributeError
            /\ UNCHANGED schedVars
            /\ last_call' = [op |-> "stop", did |-> "raised", report |-> NoReport]
       ELSE /\ scheduler' = "None"
            /\ jobs' = JobsAfterShutdown
            /\ due' = [j \in JobIds |-> 0]
            /\ instances' = [j \in JobIds |-> 0]
            /\ cyc' = [r \in AllRuns |-> IF r \in TimerInFlight THEN "idle" ELSE cyc[r]]
            /\ last_end' = [r \in AllRuns |->
                              IF r \in TimerInFlight THEN "cancelled" ELSE last_end[r]]
            /\ last_call' = [op |-> "stop", did |-> "stopped", report |-> NoReport]
            /\ UNCHANGED <<last_fire, start_pc>>
    /\ UNCHANGED <<utcnow, hbar_metrics>>
    /\ UNCHANGED response
    /\ UNCHANGED notSched

\* get_scheduler_status is called; it has no await.
GetSchedulerStatus ==
    /\ last_call' = [op |-> "status", did |-> "returned", report |-> SchedulerStatus]
    /\ UNCHANGED schedVars
    /\ UNCHANGED <<utcnow, hbar_metrics>>
    /\ UNCHANGED response
    /\ UNCHANGED notSched

\* The application serves requests between the start and the stop of the
\* schedulers in lifespan (main.py 31-47).
Serving == scheduler = "running" /\ start_pc = "idle"

\* POST /hbar/refresh: refresh_hbar_data (endpoints.py 162-185) up to its
\* first suspension: it opens a fetcher of its own and awaits the request.
RefreshHbarData ==
    /\ Serving
    /\ cyc["manual"] = "idle"
    /\ cyc' = [cyc EXCEPT !["manual"] = "fetching"]
    /\ last_end' = [last_end EXCEPT !["manual"] = "none"]
    /\ response' = [response EXCEPT !["manual"] = "none"]
    /\ UNCHANGED <<scheduler, jobs, due, instances, last_fire, start_pc>>
    /\ UNCHANGED <<utcnow, hbar_metrics>>
    /\ UNCHANGED last_call
    /\ UNCHANGED notSched

\* GET /hbar/current: get_current_hbar_data (endpoints.py 77-105) up to its
\* first suspension. get_latest_hbar_data returns the row read, or None for
\* an empty table or a failed read; with a row the endpoint returns it,
\* without one it awaits the request as a cycle does.
GetCurrentHbarData(readfail) ==
    /\ Serving
    /\ cyc["current"] = "idle"
    /\ cyc' = [cyc EXCEPT !["current"] =
                  IF hbar_metrics # {} /\ ~readfail THEN "closing_latest"
                  ELSE "fetching"]
    /\ last_end' = [last_end EXCEPT !["current"] = "none"]
    /\ response' = [response EXCEPT !["current"] = "none"]
    /\ UNCHANGED <<scheduler, jobs, due, instances, last_fire, start_pc>>
    /\ UNCHANGED <<utcnow, hbar_metrics>>
    /\ UNCHANGED last_call
    /\ UNCHANGED notSched

\* The wall clock moves on.
TickUtc ==
    /\ utcnow < MaxStamp
    /\ utcnow' = utcnow + 1
    /\ UNCHANGED hbar_metrics
    /\ UNCHANGED schedVars
    /\ UNCHANGED <<last_call, response>>
    /\ UNCHANGED notSched

\* The scheduler with its jobs and their runs. Every run maps the same
\* price within one tick of the wall clock; records that differ and the
\* clock are part of SpecRefresh.
NextSched ==
    \/ StartSchedulers
    \/ StopSchedulers
    \/ GetSchedulerStatus
    \/ \E j \in JobIds : IntervalElapses(j)
    \/ \E j \in JobIds : TimerWakeup(j)
    \/ \E r \in Runs, o \in FetchOutcomes, dbfail \in BOOLEAN :
           CycleFetchReturns(r, o, MappedPrice, dbfail)
    \/ \E r \in Runs : CycleCloseDone(r)

----------------------------------------------------------------------------
\* HTTP session: BaseFetcher.__aenter__ / __aexit__ (base_fetcher.py 18-47)
\* on the module-level hedera_token_fetcher (hedera.py 220), which every
\* invocation of the token endpoints enters (endpoints.py 241, 254)

\* Bounds of the exploration
MaxSessions == 4
MaxRequests == 2

\* Endpoint invocations that can be in flight together: one of
\* get_top_tokens, two of refresh_token_data
RefreshUses == {"refresh_a", "refresh_b"}
Uses == {"top"} \cup RefreshUses

\* self._session = None (base_fetcher.py 18)
NoSession == 0

SessIdle ==
    /\ session = NoSession
    /\ open_sessions = {}
    /\ made_sessions = 0
    /\ use_pc = [u \in Uses |-> "out"]
    /\ use_reqs = [u \in Uses |-> 0]
    /\ in_flight = [u \in Uses |-> NoSession]

\* refresh_token_data reaches "async with hedera_token_fetcher":
\* __aenter__ awaits _create_session, which makes a new client and assigns
\* it to self._session whatever self._session holds.
RefreshEnter(u) ==
    /\ use_pc[u] = "out"
    /\ made_sessions < MaxSessions
    /\ made_sessions' = made_sessions + 1
    /\ session' = made_sessions + 1
    /\ open_sessions' = open_sessions \cup {made_sessions + 1}
    /\ use_pc' = [use_pc EXCEPT ![u] = "in"]
    /\ use_reqs' = [use_reqs EXCEPT ![u] = 0]
    /\ UNCHANGED in_flight
    /\ UNCHANGED notSess

\* fetch_data awaits one _make_request: "if not self._session: await
\* self._create_session()", then "await self._session.request(...)": the
\* request is sent on the client self._session holds at that moment and the
\* use is suspended until the response.
RefreshRequest(u) ==
    /\ use_pc[u] = "in"
    /\ use_reqs[u] < MaxRequests
    /\ use_reqs' = [use_reqs EXCEPT ![u] = @ + 1]
    /\ IF session = NoSession
       THEN /\ made_sessions < MaxSessions
            /\ made_sessions' = made_sessions + 1
            /\ session' = made_sessions + 1
            /\ open_sessions' = open_sessions \cup {made_sessions + 1}
       ELSE UNCHANGED <<made_sessions, session, open_sessions>>
    /\ in_flight' = [in_flight EXCEPT ![u] = session']
    /\ use_pc' = [use_pc EXCEPT ![u] = "requesting"]
    /\ UNCHANGED notSess

\* The awaited request ends, with a response or with the exception of a
\* client closed under it; fetch_data goes on inside the with block.
RefreshResponse(u) ==
    /\ use_pc[u] = "requesting"
    /\ in_flight' = [in_flight EXCEPT ![u] = NoSession]
    /\ use_pc' = [use_pc EXCEPT ![u] = "in"]
    /\ UNCHANGED <<session, open_sessions, made_sessions, use_reqs>>
    /\ UNCHANGED notSess

\* The body of the with statement ends (by return or by an exception):
\* __aexit__ awaits _close_session, up to "await self._session.aclose()",
\* which closes the client self._session holds at that moment.
RefreshExit(u) ==
    /\ use_pc[u] = "in"
    /\ IF session # NoSession
       THEN /\ open_sessions' = open_sessions \ {session}
            /\ use_pc' = [use_pc EXCEPT ![u] = "closing"]
       ELSE /\ use_pc' = [use_pc EXCEPT ![u] = "out"]
            /\ UNCHANGED open_sessions
    /\ UNCHANGED <<session, made_sessions, use_reqs, in_flight>>
    /\ UNCHANGED notSess

\* get_top_tokens: __aenter__, the database query and the start of
\* __aexit__ run without a suspension: a client is made, assigned and
\* closed.
TopTokens ==
    /\ use_pc["top"] = "out"
    /\ made_sessions < MaxSessions
    /\ made_sessions' = made_sessions + 1
    /\ session' = made_sessions + 1
    /\ open_sessions' = open_sessions
    /\ use_pc' = [use_pc EXCEPT !["top"] = "closing"]
    /\ UNCHANGED <<use_reqs, in_flight>>
    /\ UNCHANGED notSess

\* aclose() has returned: "self._session = None".
CloseSessionDone(u) ==
    /\ use_pc[u] = "closing"
    /\ session' = NoSession
    /\ use_pc' = [use_pc EXCEPT ![u] = "out"]
    /\ UNCHANGED <<open_sessions, made_sessions, use_reqs, in_flight>>
    /\ UNCHANGED notSess

NextSession ==
    \/ \E u \in RefreshUses : RefreshEnter(u)
    \/ \E u \in RefreshUses : RefreshRequest(u)
    \/ \E u \in RefreshUses : RefreshResponse(u)
    \/ \E u \in RefreshUses : RefreshExit(u)
    \/ TopTokens
    \/ \E u \in Uses : CloseSessionDone(u)

----------------------------------------------------------------------------
\* Mapping of a token payload: the loop body of fetch_data (hedera.py 49-75)
\* with _fetch_token_stats (hedera.py 95-115), once both requests have
\* returned their bodies

\* Longest balances page explored
MaxPageLen == 2

\* A "balance" of a page entry: a leaf, or the number zero or a negative one
BalanceLeaves == Leaves \cup {[k |-> "num", v |-> 0], [k |-> "num", v |-> -3]}

BalanceLists == UNION {[1..m -> BalanceLeaves] : m \in 0..MaxPageLen}

\* The numeric fields of a token object
TokenInfos == [decimals : Leaves, total_supply : Leaves]

NoTokenData == [state |-> "pending", decimals |-> Leaf("missing"),
                total_supply |-> Leaf("missing"), holders_count |-> -1]

\* dict.get(key, default): the default for a missing key only; a null value
\* is returned as None
DictGet(x, default) ==
    IF x.k = "missing" THEN [k |-> "num", v |-> default] ELSE x

TmapIdle ==
    /\ token_info = [decimals |-> Leaf("missing"), total_supply |-> Leaf("missing")]
    /\ balances = <<>>
    /\ token_data = NoTokenData

\* The loop body for one id: _fetch_token_stats counts the holders (-1
\* stands for None), the record takes "decimals" as dict.get returns it and
\* "total_supply" through _safe_int; an exception goes to the handler of the
\* loop, which skips the id.
BuildTokenData ==
    /\ token_data.state = "pending"
    /\ LET stats  == FetchTokenStats("page", balances)
           supply == SafeInt(DictGet(token_info.total_supply, 0), 0)
           exc    == IF stats.raised # "none" THEN stats.raised ELSE supply.raised
       IN  token_data' =
              IF exc # "none"
              THEN [NoTokenData EXCEPT !.state =
                       IF CaughtByExceptException(exc) THEN "skipped" ELSE "raised"]
              ELSE [state |-> "record",
                    decimals |-> DictGet(token_info.decimals, 0),
                    total_supply |-> [k |-> "num", v |-> supply.value],
                    holders_count |-> stats.holders]
    /\ UNCHANGED <<token_info, balances>>
    /\ UNCHANGED notTmap

NextTokenMap == BuildTokenData

----------------------------------------------------------------------------
\* Read path of hbar_metrics: CoinGeckoFetcher.get_latest_hbar_data and
\* get_hbar_price_history (coingecko.py 119-169)

\* Longest history asked for, in ticks of the wall clock
MaxDays == 2

NoRead == [op |-> "none", days |-> 0, at |-> 0, failed |-> FALSE, none |-> FALSE,
           rows |-> <<>>, before |-> {}]

ReadIdle == last_read = NoRead

\* ORDER BY timestamp ASC over rows with distinct timestamps
RECURSIVE OrderByTimestampAsc(_)
OrderByTimestampAsc(rows) ==
    IF rows = {} THEN <<>>
    ELSE LET first == CHOOSE x \in rows : \A y \in rows : x.timestamp <= y.timestamp
         IN  <<first>> \o OrderByTimestampAsc(rows \ {first})

OldestRow(table) == CHOOSE x \in table : \A y \in table : x.timestamp <= y.timestamp

\* ORDER BY timestamp DESC LIMIT 1
LatestRow(table) == CHOOSE x \in table : \A y \in table : y.timestamp <= x.timestamp

\* get_latest_hbar_data: the row fetchone returns as a dict, None when
\* there is none, and None when the query raises ("except Exception").
GetLatestHbarData(readfail) ==
    /\ last_read' = [op |-> "latest", days |-> 0, at |-> utcnow, failed |-> readfail,
                     none |-> readfail \/ hbar_metrics = {},
                     rows |-> IF readfail \/ hbar_metrics = {} THEN <<>>
                              ELSE <<LatestRow(hbar_metrics)>>,
                     before |-> hbar_metrics]
    /\ UNCHANGED <<utcnow, hbar_metrics>>
    /\ UNCHANGED notRead

\* get_hbar_price_history(days): the rows stamped within the last `days`,
\* oldest first; [] when the query raises.
GetHbarPriceHistory(days, readfail) ==
    /\ last_read' = [op |-> "history", days |-> days, at |-> utcnow,
                     failed |-> readfail, none |-> FALSE,
                     rows |-> IF readfail THEN <<>>
                              ELSE OrderByTimestampAsc(
                                       {x \in hbar_metrics : x.timestamp >= utcnow - days}),
                     before |-> hbar_metrics]
    /\ UNCHANGED <<utcnow, hbar_metrics>>
    /\ UNCHANGED notRead

NextRead ==
    \/ \E readfail \in BOOLEAN : GetLatestHbarData(readfail)
    \/ \E days \in 1..MaxDays, readfail \in BOOLEAN : GetHbarPriceHistory(days, readfail)

----------------------------------------------------------------------------
\* Specifications

InitRate ==
    /\ requests_per_minute \in 1..MaxCeiling
    /\ request_times = <<>>
    /\ loop_time = 0
    /\ rl_pc = [c \in Callers |-> "idle"]
    /\ rl_call = [c \in Callers |-> NoCall]
    /\ rl_log = <<>>
    /\ RetryIdle /\ SchedIdle /\ StoreIdle /\ MapIdle /\ TokIdle /\ SessIdle /\ TmapIdle /\ ReadIdle /\ ConfigIdle

SpecRate == InitRate /\ [][NextRate]_vars

InitRateConc ==
    /\ requests_per_minute \in 1..MaxCeiling
    /\ request_times = <<>>
    /\ loop_time = 0
    /\ rl_pc = [c \in Callers |-> "idle"]
    /\ rl_call = [c \in Callers |-> NoCall]
    /\ rl_log = <<>>
    /\ RetryIdle /\ SchedIdle /\ StoreIdle /\ MapIdle /\ TokIdle /\ SessIdle /\ TmapIdle /\ ReadIdle /\ ConfigIdle

SpecRateConc == InitRateConc /\ [][NextRateConc]_vars

\* No cycle has run yet; the ceiling is that of every instance.
InitUpstream ==
    /\ requests_per_minute \in 1..MaxCeiling
    /\ request_times = <<>>
    /\ loop_time = 0
    /\ rl_pc = [c \in Callers |-> "idle"]
    /\ rl_call = [c \in Callers |-> NoCall]
    /\ rl_log = <<>>
    /\ RetryIdle /\ SchedIdle /\ StoreIdle /\ MapIdle /\ TokIdle /\ SessIdle /\ TmapIdle /\ ReadIdle /\ ConfigIdle

SpecUpstream == InitUpstream /\ [][NextUpstream]_vars

\* The process after import, with any configured ceiling, once the first
\* CoinGeckoFetcher has been constructed
InitConfig ==
    /\ configured \in 1..MaxConfigured
    /\ requests_per_minute = CoinGeckoFetcherCeiling(configured)
    /\ request_times = NewWindow
    /\ loop_time = 0
    /\ rl_pc = [c \in Callers |-> "idle"]
    /\ rl_call = [c \in Callers |-> NoCall]
    /\ rl_log = <<>>
    /\ RetryIdle /\ SchedIdle /\ StoreIdle /\ MapIdle /\ TokIdle /\ SessIdle /\ TmapIdle /\ ReadIdle

SpecConfig == InitConfig /\ [][NextConfig]_vars

InitRetry ==
    /\ rq_pc = "idle"
    /\ rq_attempt = 0
    /\ rq_outcomes = <<>>
    /\ rq_sleeps = <<>>
    /\ rq_raised = <<>>
    /\ RateIdle /\ SchedIdle /\ StoreIdle /\ MapIdle /\ TokIdle /\ SessIdle /\ TmapIdle /\ ReadIdle /\ ConfigIdle

SpecRetry == InitRetry /\ [][NextRetry]_vars

\* A rate-limited fetcher after construction, with any ceiling, before its
\* first request
InitLimited ==
    /\ requests_per_minute \in 1..MaxCeiling
    /\ request_times = NewWindow
    /\ loop_time = 0
    /\ rl_pc = [c \in Callers |-> "idle"]
    /\ rl_call = [c \in Callers |-> NoCall]
    /\ rl_log = <<>>
    /\ rq_pc = "idle"
    /\ rq_attempt = 0
    /\ rq_outcomes = <<>>
    /\ rq_sleeps = <<>>
    /\ rq_raised = <<>>
    /\ SchedIdle /\ StoreIdle /\ MapIdle /\ TokIdle /\ SessIdle /\ TmapIdle /\ ReadIdle /\ ConfigIdle

SpecLimited == InitLimited /\ [][NextLimited]_vars

\* Any prior content of the table
InitStore ==
    /\ utcnow = 0
    /\ hbar_metrics \in ValidTables
    /\ st_log = <<>>
    /\ RateIdle /\ RetryIdle /\ SchedIdle /\ MapIdle /\ TokIdle /\ SessIdle /\ TmapIdle /\ ReadIdle /\ ConfigIdle

SpecStore == InitStore /\ [][NextStore]_vars

\* The process before lifespan starts the schedulers, with an empty table
InitSched ==
    /\ scheduler = "None"
    /\ jobs = {}
    /\ due = [j \in JobIds |-> 0]
    /\ instances = [j \in JobIds |-> 0]
    /\ last_fire = "none"
    /\ start_pc = "idle"
    /\ cyc = [r \in AllRuns |-> "idle"]
    /\ last_end = [r \in AllRuns |-> "none"]
    /\ last_call = NoCallYet
    /\ response = [r \in ApiRuns |-> "none"]
    /\ RateIdle /\ RetryIdle /\ StoreIdle /\ MapIdle /\ TokIdle /\ SessIdle /\ TmapIdle /\ ReadIdle /\ ConfigIdle

SpecSched == InitSched /\ [][NextSched]_vars

\* The scheduled cycles of hbar_data_fetch and the manual refreshes, side
\* by side on one event loop, with records that differ and a wall clock
\* that moves.
NextRefresh ==
    \/ StartSchedulers
    \/ IntervalElapses("hbar_data_fetch")
    \/ TimerWakeup("hbar_data_fetch")
    \/ RefreshHbarData
    \/ \E r \in AllRuns, o \in FetchOutcomes, p \in Prices, dbfail \in BOOLEAN :
           CycleFetchReturns(r, o, p, dbfail)
    \/ \E r \in AllRuns : CycleCloseDone(r)
    \/ TickUtc

InitRefresh ==
    /\ scheduler = "None"
    /\ jobs = {}
    /\ due = [j \in JobIds |-> 0]
    /\ instances = [j \in JobIds |-> 0]
    /\ last_fire = "none"
    /\ start_pc = "idle"
    /\ cyc = [r \in AllRuns |-> "idle"]
    /\ last_end = [r \in AllRuns |-> "none"]
    /\ last_call = NoCallYet
    /\ response = [r \in ApiRuns |-> "none"]
    /\ RateIdle /\ RetryIdle /\ StoreIdle /\ MapIdle /\ TokIdle /\ SessIdle /\ TmapIdle /\ ReadIdle /\ ConfigIdle

SpecRefresh == InitRefresh /\ [][NextRefresh]_vars

\* The endpoints that save a record, called after the start of the
\* schedulers
NextApi ==
    \/ StartSchedulers
    \/ RefreshHbarData
    \/ \E readfail \in BOOLEAN : GetCurrentHbarData(readfail)
    \/ \E r \in AllRuns, o \in FetchOutcomes, p \in Prices, dbfail \in BOOLEAN :
           CycleFetchReturns(r, o, p, dbfail)
    \/ \E r \in AllRuns : CycleCloseDone(r)
    \/ TickUtc

InitApi ==
    /\ scheduler = "None"
    /\ jobs = {}
    /\ due = [j \in JobIds |-> 0]
    /\ instances = [j \in JobIds |-> 0]
    /\ last_fire = "none"
    /\ start_pc = "idle"
    /\ cyc = [r \in AllRuns |-> "idle"]
    /\ last_end = [r \in AllRuns |-> "none"]
    /\ last_call = NoCallYet
    /\ response = [r \in ApiRuns |-> "none"]
    /\ RateIdle /\ RetryIdle /\ StoreIdle /\ MapIdle /\ TokIdle /\ SessIdle /\ TmapIdle /\ ReadIdle /\ ConfigIdle

SpecApi == InitApi /\ [][NextApi]_vars

\* The process after import: hedera_token_fetcher has been constructed and
\* no endpoint has been called.
InitSession ==
    /\ session = NoSession
    /\ open_sessions = {}
    /\ made_sessions = 0
    /\ use_pc = [u \in Uses |-> "out"]
    /\ use_reqs = [u \in Uses |-> 0]
    /\ in_flight = [u \in Uses |-> NoSession]
    /\ RateIdle /\ RetryIdle /\ SchedIdle /\ StoreIdle /\ MapIdle /\ TokIdle /\ TmapIdle /\ ReadIdle /\ ConfigIdle

SpecSession == InitSession /\ [][NextSession]_vars

\* Any token object and any balances page the two requests can return
InitTokenMap ==
    /\ token_info \in TokenInfos
    /\ balances \in BalanceLists
    /\ token_data = NoTokenData
    /\ RateIdle /\ RetryIdle /\ SchedIdle /\ StoreIdle /\ MapIdle /\ TokIdle /\ SessIdle /\ ReadIdle /\ ConfigIdle

SpecTokenMap == InitTokenMap /\ [][NextTokenMap]_vars

\* Any content of the table, read at a time not before its stamps
InitRead ==
    /\ hbar_metrics \in ValidTables
    /\ utcnow \in MaxStamp..(MaxStamp + MaxDays)
    /\ st_log = <<>>
    /\ last_read = NoRead
    /\ RateIdle /\ RetryIdle /\ SchedIdle /\ MapIdle /\ TokIdle /\ SessIdle /\ TmapIdle /\ ConfigIdle

SpecRead == InitRead /\ [][NextRead]_vars

\* Any body a successful request can return
InitMap ==
    /\ payload \in Payloads
    /\ mapped = [state |-> "pending", rec |-> NoRecord]
    /\ RateIdle /\ RetryIdle /\ SchedIdle /\ StoreIdle /\ TokIdle /\ SessIdle /\ TmapIdle /\ ReadIdle /\ ConfigIdle

SpecMap == InitMap /\ [][NextMap]_vars

\* A fetch of the token list, over a table that is empty or holds the rows
\* of an earlier save stamped 0
InitTok ==
    /\ tk_pc = "fetching"
    /\ tk_i = 1
    /\ tk_req = [t \in TokenIds |-> "pending"]
    /\ tk_stats = [t \in TokenIds |-> "pending"]
    /\ tk_http = [t \in TokenIds |-> <<>>]
    /\ tokens_data = <<>>
    /\ tk_save = NoSave
    /\ hedera_tokens \in {{[timestamp |-> 0, token_id |-> t, holders_count |-> -1] : t \in S} :
                             S \in {{}, TokenIds}}
    /\ RateIdle /\ RetryIdle /\ SchedIdle /\ StoreIdle /\ MapIdle /\ SessIdle /\ TmapIdle /\ ReadIdle /\ ConfigIdle

SpecTok == InitTok /\ [][NextTok]_vars

----------------------------------------------------------------------------
\* Claims about the rate limiter

\* The calls released to the HTTP layer in the 60 s ending at the release of
\* call i.
ReleasedInWindow(i) ==
    {j \in 1..Len(rl_log) :
        /\ rl_log[i].released - rl_log[j].released >= 0
        /\ rl_log[i].released - rl_log[j].released < WindowSec}

\* C1: in any 60-second window, the number of calls released to the HTTP
\* layer (counted when _wait_for_rate_limit returns, after any sleep) never
\* exceeds requests_per_minute.
C1_ReleasesWithinCeiling ==
    \A i \in 1..Len(rl_log) :
        Cardinality(ReleasedInWindow(i)) <= requests_per_minute

\* The requests sent to the upstream in the 60 s ending with request i
SentInWindow(i) ==
    {j \in 1..Len(rl_log) :
        /\ rl_log[j].released <= rl_log[i].released
        /\ rl_log[j].released > rl_log[i].released - WindowSec}

\* C20: over all the cycles against CoinGecko, whichever fetcher instance
\* sends them, the requests sent in any 60-second window number at most
\* requests_per_minute.
C20_UpstreamWithinCeiling ==
    \A i \in 1..Len(rl_log) :
        Cardinality(SentInWindow(i)) <= requests_per_minute

\* C32: the ceiling the limiter of a CoinGeckoFetcher applies is the
\* configured settings.coingecko.requests_per_minute, whatever value is
\* configured.
C32_CeilingIsConfigured ==
    requests_per_minute = configured

\* Calls of RateLimitedFetcher._make_request that have got past the
\* limiter: those that returned or raised, and the one whose attempts are
\* under way.
RequestsPastLimiter ==
    Cardinality({i \in 1..Len(rq_outcomes) : RaisedBy(rq_outcomes[i]) = "none"})
        + Len(rq_raised)
        + (IF rq_pc \in {"attempt", "backoff"} THEN 1 ELSE 0)

\* C33: RateLimitedFetcher._make_request consults the limiter once per
\* logical request. The admissions number the requests that got past the
\* limiter, whether they took 1, 2 or 3 attempts; an admission appends
\* exactly one stamp to the window; and while the attempts and backoffs of
\* a request are under way the window and the admissions stay as they are.
C33_OneAdmissionPerRequest ==
    /\ [](Len(rl_log) = RequestsPastLimiter)
    /\ [][Len(rl_log') # Len(rl_log) =>
             LET n == rl_log'[Len(rl_log')].now
             IN  /\ Len(rl_log') = Len(rl_log) + 1
                 /\ request_times' \in {Append(request_times, n),
                                        Append(PruneWindow(request_times, n), n)}
          ]_vars
    /\ [][(rq_pc = "attempt" \/ rq_pc = "backoff") =>
             (request_times' = request_times /\ rl_log' = rl_log)
          ]_vars

\* C33 witness: two requests, of 2 and of 3 attempts, the second held back
\* by the limiter: two admissions and two stamps.
C33_Witness ==
    /\ rq_outcomes = <<"network", "ok", "network", "network", "ok">>
    /\ rq_pc = "returned"
    /\ Len(rl_log) = 2
    /\ rl_log[2].slept # <<>>
    /\ Len(request_times) = 2

\* C9: a call never rejects. With the window at the ceiling it suspends
\* exactly once, for max(60 - (now - oldest remaining timestamp), 0) seconds,
\* at most 60, and is then admitted; below the ceiling it is admitted at
\* once with no suspension.
C9_SingleBoundedSuspension ==
    /\ \A i \in 1..Len(rl_log) :
          LET e == rl_log[i] IN
          IF Len(e.window) >= requests_per_minute
          THEN LET w == Max(WindowSec - (e.now - SetMin(Range(e.window))), 0) IN
               /\ w <= 60
               /\ e.slept = IF w > 0 THEN <<w>> ELSE <<>>
               /\ e.released = e.now + w
          ELSE /\ e.slept = <<>>
               /\ e.released = e.now
    /\ \A c \in Callers :
          rl_pc[c] = "sleeping" =>
              /\ rl_call[c].wake - rl_call[c].now \in 1..60
              /\ loop_time <= rl_call[c].wake

\* C9 witness: with ceiling 2, a third call found the window full, slept
\* and was admitted.
C9_Witness ==
    /\ requests_per_minute = 2
    /\ \E i \in 1..Len(rl_log) :
          /\ i >= 3
          /\ rl_log[i].slept # <<>>
          /\ Len(rl_log[i].window) = 2

\* C22: in every reachable state, also just after a call has been admitted
\* following a wait, the window request_times holds at most
\* requests_per_minute entries, and no entry is more than 60 seconds older
\* than the latest admission.
C22_WindowWithinCeiling ==
    /\ Len(request_times) <= requests_per_minute
    /\ Len(rl_log) > 0 =>
          \A i \in 1..Len(request_times) :
              rl_log[Len(rl_log)].released - request_times[i] <= WindowSec

\* C23: concurrent calls on one instance are admitted in the order in which
\* they called: no call is admitted before one that called earlier, whether
\* that one has been admitted or is still waiting; and the window stays
\* ordered by timestamp, its first element the oldest.
C23_AdmittedInCallOrder ==
    /\ \A i, j \in 1..Len(rl_log) :
          i < j => rl_log[i].arrival < rl_log[j].arrival
    /\ \A c \in Callers :
          rl_pc[c] = "sleeping" =>
              \A i \in 1..Len(rl_log) : rl_log[i].arrival < rl_call[c].arrival
    /\ \A i, j \in 1..Len(request_times) :
          i < j => request_times[i] <= request_times[j]

----------------------------------------------------------------------------
\* Claims about the retrying request

\* The failures the specification calls retryable, and those it calls fatal
SpecRetryable == {"network", "timeout", "s500", "s503", "s429"}
SpecFatal == {"s404", "s400", "bad_body"}

RqTerminal == rq_pc \in {"returned", "raised"}

\* C2: one logical request makes exactly 3 attempts when every attempt
\* fails with a retryable failure and exactly k when attempt k is the first
\* to succeed; it always ends by returning the body or by raising exactly
\* one exception after its last attempt, never after more than 3 attempts.
C2_AttemptCount ==
    /\ Len(rq_outcomes) <= 3
    /\ rq_pc = "returned" =>
          /\ rq_outcomes[Len(rq_outcomes)] = "ok"
          /\ \A i \in 1..(Len(rq_outcomes) - 1) : rq_outcomes[i] # "ok"
          /\ rq_attempt = Len(rq_outcomes)
          /\ rq_raised = <<>>
    /\ rq_pc = "raised" =>
          /\ Len(rq_raised) = 1
          /\ rq_attempt = Len(rq_outcomes)
          /\ (\A i \in 1..Len(rq_outcomes) : rq_outcomes[i] \in SpecRetryable)
                => Len(rq_outcomes) = 3
    /\ ~RqTerminal => rq_raised = <<>>
    /\ RqTerminal \/ ENABLED NextRetry

\* C2 witness: three retryable failures in a row, then the terminal raise.
C2_Witness ==
    /\ rq_pc = "raised"
    /\ Len(rq_outcomes) = 3
    /\ \A i \in 1..3 : rq_outcomes[i] \in SpecRetryable

\* C3: a fatal failure (4xx other than 429, or an undecodable 2xx body) is
\* surfaced by the one attempt that met it, with no retry and no backoff
\* delay after it; only network errors, timeouts, 5xx and 429 are retried.
C3_FatalNotRetried ==
    /\ \A i \in 1..Len(rq_outcomes) :
          rq_outcomes[i] \in SpecFatal =>
              /\ i = Len(rq_outcomes)
              /\ Len(rq_sleeps) = i - 1
              /\ rq_pc = "raised"
    /\ \A i \in 1..(Len(rq_outcomes) - 1) : rq_outcomes[i] \in SpecRetryable
    /\ rq_pc = "backoff" => rq_outcomes[Len(rq_outcomes)] \in SpecRetryable

\* C24: _make_request ends in one of two ways only. It returns the parsed
\* body of a 2xx response, or it raises the exception of its last attempt:
\* after the attempt cap when the retry predicate accepts the exception, in
\* the attempt that met it otherwise. No failure ends in a return.
C24_ReturnsBodyOrRaises ==
    LET n == Len(rq_outcomes) IN
    /\ rq_pc \in {"idle", "attempt", "backoff", "returned", "raised"}
    /\ rq_pc = "returned" =>
          /\ rq_outcomes[n] = "ok"
          /\ rq_raised = <<>>
    /\ rq_pc = "raised" =>
          /\ rq_outcomes[n] # "ok"
          /\ rq_raised = <<RaisedBy(rq_outcomes[n])>>
          /\ rq_attempt = n
          /\ RetryIfExceptionType(rq_raised[1]) => n = MaxAttemptNumber
    /\ rq_pc \in {"attempt", "backoff"} =>
          /\ rq_raised = <<>>
          /\ \A i \in 1..n : rq_outcomes[i] # "ok"
          /\ ENABLED NextRetry

\* C24 witnesses: a mix of failures that ends in a body which does not
\* decode is raised to the caller, in the attempt that met it.
C24_Witness ==
    /\ rq_pc = "raised"
    /\ rq_outcomes = <<"timeout", "s503", "bad_body">>
    /\ rq_raised = <<"ValueError">>

\* C27: the delays before the successive retries are exponential: each lies
\* within [min, max] = [4, 10] seconds, and each after the first is twice the
\* one before it, capped at the maximum.
C27_BackoffDoubles ==
    /\ \A i \in 1..Len(rq_sleeps) :
          /\ rq_sleeps[i] >= WaitMin
          /\ rq_sleeps[i] <= WaitMax
    /\ \A i \in 2..Len(rq_sleeps) :
          rq_sleeps[i] = Min(2 * rq_sleeps[i - 1], WaitMax)

----------------------------------------------------------------------------
\* Claims about the scheduler

Hbar == "hbar_data_fetch"

\* C4: when the interval timer of hbar_data_fetch fires while an invocation
\* of the job is in flight, the firing is dropped: nothing is started and
\* nothing stays queued. At most one timer-started execution is in flight at
\* any moment, and a run starts only at a firing that finds none in flight.
C4_CoalescedFiring ==
    /\ [](Cardinality(TimerInFlight) <= 1)
    /\ [][ /\ (TimerWakeup(Hbar) /\ TimerInFlight # {}) =>
                  /\ cyc' = cyc
                  /\ due'[Hbar] = 0
                  /\ last_fire' = "skipped"
           /\ Cardinality(TimerInFlight') > Cardinality(TimerInFlight) =>
                  /\ TimerInFlight = {}
                  /\ due[Hbar] > 0
                  /\ due'[Hbar] = 0
         ]_vars

\* C4 witness: a firing has just been dropped while one run is in flight.
C4_Witness ==
    /\ scheduler = "running"
    /\ last_fire = "skipped"
    /\ due[Hbar] = 0
    /\ cyc["t1"] = "fetching"

\* C5: the scheduler is not reported stopped (global reset to None) until a
\* cycle that was in flight when stop_schedulers was called has run to its
\* end; an in-flight cycle is never cancelled by the stop.
C5_StopWaitsForCycle ==
    scheduler = "None" =>
        \A r \in TimerRuns : cyc[r] \notin InFlight /\ last_end[r] # "cancelled"

FailedEnds == {"save_failed", "no_data", "error_logged"}

\* C10: a fetch, mapping or save failure inside an invocation never leaves
\* fetch_and_save_hbar_data as an exception: the invocation ends normally,
\* the scheduler keeps running with its jobs, the executor's count goes back
\* down, and the next firing of the job starts a run.
C10_FailureContained ==
    /\ [](\A r \in Runs : last_end[r] # "raised" /\ cyc[r] # "closing_raise")
    /\ [](scheduler = "running" => instances[Hbar] = Cardinality(TimerInFlight))
    /\ [][\A r \in Runs :
            (cyc[r] \in InFlight /\ cyc'[r] = "idle" /\ last_end'[r] \in FailedEnds) =>
                /\ scheduler' = scheduler
                /\ jobs' = jobs
                /\ due' = due
                /\ r \in TimerRuns => instances'[Hbar] = instances[Hbar] - 1
         ]_vars
    /\ []((scheduler = "running" /\ due[Hbar] > 0 /\ TimerInFlight = {}) =>
             ENABLED (TimerWakeup(Hbar) /\ TimerInFlight' # {}))

\* C10 witness: a timer-started invocation ended in a failure and the next
\* firing has started another one.
C10_Witness ==
    /\ scheduler = "running"
    /\ last_end["t1"] \in FailedEnds
    /\ cyc["t1"] = "fetching"
    /\ last_fire = "started"

\* A step that is a call of op whose result differs from the last call's
Called(op) == last_call' # last_call /\ last_call'.op = op

\* C35: after any sequence of start_schedulers and stop_schedulers calls the
\* registered jobs are none (stopped) or exactly hbar_data_fetch and
\* scheduler_status (running); a start that follows a stop registers exactly
\* these two on a fresh scheduler, with no run time due and no execution
\* counted.
C35_JobsNoneOrBoth ==
    /\ [](scheduler \in {"None", "running"})
    /\ [](scheduler = "None" => jobs = {})
    /\ [](scheduler = "running" => jobs = JobIds)
    /\ [][(Called("start") /\ last_call'.did = "started") =>
            /\ scheduler = "None" /\ jobs = {}
            /\ scheduler' = "running" /\ jobs' = JobIds
            /\ \A j \in JobIds : due'[j] = 0 /\ instances'[j] = 0
         ]_vars

\* C35 witness: the schedulers were started again after a stop that
\* cancelled a timer-fired run, and both jobs are registered.
C35_Witness ==
    /\ scheduler = "running"
    /\ jobs = JobIds
    /\ last_call.op = "start" /\ last_call.did = "started"
    /\ \E r \in TimerRuns : last_end[r] = "cancelled"

\* C31: the first run that start_schedulers awaits itself is never in
\* flight together with a timer-fired run of hbar_data_fetch, however long
\* it takes and however short the interval.
C31_BootRunNotConcurrent ==
    ~(cyc["boot"] \in InFlight /\ TimerInFlight # {})

\* C12: start_schedulers called while the scheduler is running is a no-op:
\* the scheduler, its jobs and their next run times, the executions and the
\* invocations are as they were (no second scheduler, no job registered
\* again, no further immediate run), and so is the table.
C12_StartWhileRunningNoOp ==
    [][(Called("start") /\ scheduler # "None") =>
          /\ last_call'.did = "noop"
          /\ UNCHANGED <<scheduler, jobs, due, instances, last_fire>>
          /\ UNCHANGED <<start_pc, cyc, last_end>>
          /\ UNCHANGED <<utcnow, hbar_metrics>>
      ]_vars

\* C12 witness: start was called as a no-op while a run time was due and a
\* timer-started run was in flight.
C12_Witness ==
    /\ last_call.op = "start"
    /\ last_call.did = "noop"
    /\ scheduler = "running"
    /\ due[Hbar] > 0
    /\ cyc["t1"] = "fetching"

\* C13: stop_schedulers called when no scheduler is running (never started,
\* or stopped before) raises nothing and leaves the module state as it was,
\* stopped; a start_schedulers that follows starts the scheduler with both
\* jobs and the immediate run.
C13_StopWhenStoppedNoOp ==
    /\ [](last_call.did # "raised")
    /\ [][(Called("stop") /\ scheduler = "None") =>
              /\ last_call'.did = "noop"
              /\ UNCHANGED schedVars
              /\ scheduler' = "None"
              /\ jobs' = {}
          ]_vars
    /\ [][(last_call.op = "stop" /\ last_call.did = "noop" /\ Called("start")) =>
              /\ last_call'.did = "started"
              /\ scheduler' = "running"
              /\ jobs' = JobIds
              /\ cyc'["boot"] = "fetching"
          ]_vars

\* C13 witness: stop was called as a no-op on a scheduler that had been
\* started and stopped before.
C13_Witness ==
    /\ last_call.op = "stop"
    /\ last_call.did = "noop"
    /\ scheduler = "None"
    /\ last_end["boot"] # "none"

C18_StatusReadOnly ==
    [][Called("status") =>
          /\ UNCHANGED schedVars
          /\ UNCHANGED <<utcnow, hbar_metrics>>
          /\ scheduler = "None" =>
                 last_call'.report = [running |-> FALSE, jobs |-> {}]
          /\ scheduler # "None" =>
                 /\ last_call'.report.running
                 /\ {x.id : x \in last_call'.report.jobs} = JobIds
                 /\ \A x \in last_call'.report.jobs : x.next_run = due[x.id]
      ]_vars

\* C18 witness: the status was reported for a running scheduler with a run
\* time of hbar_data_fetch due.
C18_Witness ==
    /\ last_call.op = "status"
    /\ last_call.report.running
    /\ scheduler = "running"
    /\ due[Hbar] > 0
    /\ last_call.report = SchedulerStatus

----------------------------------------------------------------------------
\* Claims about the cycles that run side by side and about the endpoints

\* The record a cycle maps at the moment its request returns
CycleRecord(p) == [timestamp |-> utcnow, price_usd |-> p]

\* C11: a scheduled cycle and a manual refresh that are in flight together
\* write without a lock, in any order of their steps: the table keeps at
\* most one row per timestamp; a row that appears is the whole record of the
\* cycle whose step wrote it; and the save of a cycle succeeds whatever the
\* other cycle has written, the same timestamp included (no failure of the
\* database itself being injected), leaving that cycle's record in the table.
C11_ConcurrentUpserts ==
    /\ [](hbar_metrics \in ValidTables)
    /\ [][\A x \in hbar_metrics' \ hbar_metrics :
             \E r \in {"t1", "boot", "manual"}, p \in Prices :
                 /\ cyc[r] = "fetching"
                 /\ cyc'[r] = "closing_saved"
                 /\ x = CycleRecord(p)
          ]_vars
    /\ [][\A r \in {"t1", "manual"}, p \in Prices :
             CycleFetchReturns(r, "record", p, FALSE) =>
                 /\ cyc'[r] = "closing_saved"
                 /\ CycleRecord(p) \in hbar_metrics'
                 /\ \A x \in hbar_metrics' :
                        x.timestamp = utcnow => x = CycleRecord(p)
          ]_vars

\* C11 witness: the scheduled cycle and the manual refresh were in flight
\* together, both have saved a record under the same timestamp, and the
\* table holds one row for it.
C11_Witness ==
    /\ cyc["t1"] = "closing_saved"
    /\ cyc["manual"] = "closing_saved"
    /\ utcnow = 0
    /\ Cardinality(hbar_metrics) = 1

\* C15: refresh_hbar_data answers with success only when the fetch gave a
\* record and the save returned True. When the fetch gives no record (any
\* exception on the way included) or the save fails, the invocation ends in
\* a failure and its caller gets HTTP 500.
C15_RefreshFailureReported ==
    /\ [](response["manual"] = "200" => last_end["manual"] = "saved")
    /\ [](last_end["manual"] \notin {"none", "saved"} => response["manual"] = "500")
    /\ [][\A o \in FetchOutcomes, p \in Prices, dbfail \in BOOLEAN :
             CycleFetchReturns("manual", o, p, dbfail) =>
                 (cyc'["manual"] = "closing_saved" <=> (o = "record" /\ ~dbfail))
          ]_vars

\* C15 witness: a manual refresh whose save failed has answered 500.
C15_Witness ==
    /\ last_end["manual"] = "save_failed"
    /\ response["manual"] = "500"

\* C16: a failed write is surfaced as one failure result and acted on:
\* save_hbar_data returns False when execute raises and True only when the
\* row was written, and no caller that got False answers as if the record
\* had been saved.
C16_SaveFailureSurfaced ==
    /\ [][\A r \in AllRuns, p \in Prices, dbfail \in BOOLEAN :
             CycleFetchReturns(r, "record", p, dbfail) =>
                 /\ dbfail => cyc'[r] = "closing_save_failed" /\ hbar_metrics' = hbar_metrics
                 /\ ~dbfail => cyc'[r] = "closing_saved" /\ CycleRecord(p) \in hbar_metrics'
          ]_vars
    /\ [](\A r \in ApiRuns : last_end[r] = "save_failed" => response[r] = "500")

\* C34: a cycle whose fetch fails writes nothing. Whatever the request or
\* the mapping raised, fetch_hbar_data returns None (the cycle goes on to
\* its "no data" branch, not to an exception handler), and neither the
\* start of the cycle, nor that step, nor the close of its session changes
\* hbar_metrics. (A failed fetch yields no record, so the price and the
\* database outcome passed to CycleFetchReturns play no part in the step.)
C34_FailedFetchWritesNothing ==
    /\ [][\A r \in AllRuns :
             (cyc[r] = "fetching" /\ cyc'[r] # "fetching") =>
                 \A o \in FetchOutcomes \ {"record"} :
                     CycleFetchReturns(r, o, MappedPrice, FALSE) =>
                         /\ cyc'[r] = "closing_no_data"
                         /\ hbar_metrics' = hbar_metrics
          ]_vars
    /\ [][\A r \in AllRuns :
             (cyc[r] = "idle" /\ cyc'[r] = "fetching") => hbar_metrics' = hbar_metrics
          ]_vars
    /\ [][\A r \in AllRuns :
             (cyc[r] = "closing_no_data" /\ cyc'[r] # cyc[r]) =>
                 /\ hbar_metrics' = hbar_metrics
                 /\ last_end'[r] = "no_data" \/ last_end'[r] = "cancelled"
          ]_vars

\* C34 witness: a timer-fired cycle ended with no data while the table
\* held the row of an earlier cycle.
C34_Witness ==
    /\ \E r \in TimerRuns : last_end[r] = "no_data" /\ cyc[r] = "idle"
    /\ hbar_metrics # {}

----------------------------------------------------------------------------
\* Claims about the storage

\* C6: save_hbar_data is idempotent. Whatever the table held before, saving
\* the same record twice leaves the table as saving it once did, with one
\* row for the record's timestamp holding the record's values, and both
\* calls report success (no failure of the database itself being injected).
C6_SaveIdempotent ==
    \A i \in 1..(Len(st_log) - 1) :
        LET a == st_log[i]
            b == st_log[i + 1]
        IN  (a.rec = b.rec /\ ~a.dbfail /\ ~b.dbfail) =>
                /\ a.ok /\ b.ok
                /\ b.after = a.after
                /\ SameKey(b.after, a.rec) = {a.rec}

\* C6 witness: the same record saved twice over a table that already held
\* another row under its key.
C6_Witness ==
    /\ Len(st_log) = 2
    /\ st_log[1].rec = st_log[2].rec
    /\ ~st_log[1].dbfail /\ ~st_log[2].dbfail
    /\ st_log[1].after # {st_log[1].rec}
    /\ hbar_metrics = st_log[1].after

----------------------------------------------------------------------------
\* Claims about the token fetch

RequestFailures == {"HTTPStatusError", "RequestError", "ValueError"}

FailedIds == {t \in TokenIds : tk_req[t] \in RequestFailures}

\* The request of exactly one id failed, every other id answered with a
\* token object, and no token is flagged deleted.
OneRequestFailed ==
    /\ Cardinality(FailedIds) = 1
    /\ \A t \in TokenIds \ FailedIds : tk_req[t] = "ok"
    /\ \A i \in 1..Len(tokens_data) : ~tokens_data[i].deleted

\* The ids of S in list order
RECURSIVE InOrder(_, _)
InOrder(S, from) ==
    IF from > NumTokens THEN <<>>
    ELSE IF from \in S THEN <<from>> \o InOrder(S, from + 1)
    ELSE InOrder(S, from + 1)

KeptIds == {tokens_data[i].token_id : i \in {k \in 1..Len(tokens_data) : ~tokens_data[k].deleted}}

\* The ids of the rows the save has added to the table
WrittenIds == {x.token_id : x \in hedera_tokens \ tk_save.prior}

\* C17: save_token_data writes no row for a token flagged deleted. The rows
\* it adds carry its timestamp and ids of tokens that are not deleted; when
\* it reports success they are the rows of all of those; when every token
\* is deleted nothing is written and it returns False.
C17_DeletedNotWritten ==
    tk_save.done =>
        /\ WrittenIds \subseteq KeptIds
        /\ \A x \in hedera_tokens \ tk_save.prior : x.timestamp = tk_save.time
        /\ tk_save.ok => WrittenIds = KeptIds
        /\ KeptIds = {} => ~tk_save.ok /\ hedera_tokens = tk_save.prior

\* C17 witness: a list with a deleted and a live token was saved with
\* success.
C17_Witness ==
    /\ tk_save.done
    /\ tk_save.ok
    /\ \E i \in 1..Len(tokens_data) : tokens_data[i].deleted
    /\ KeptIds # {}
    /\ WrittenIds = KeptIds

C26_SessionScopedToUse ==
    /\ Cardinality(open_sessions) <= 1
    /\ (\A u \in Uses : use_pc[u] = "out") => open_sessions = {}

\* C36: with overlapping uses of the shared fetcher, no step (the exit of
\* a with block in particular) closes the session on which another use has
\* a request in flight: a session that is open and carries the request of a
\* use stays open for as long as that request is in flight.
C36_ExitSparesSessionInFlight ==
    [][\A u \in Uses :
          (in_flight[u] # NoSession /\ in_flight[u] \in open_sessions
              /\ in_flight'[u] = in_flight[u]) =>
              in_flight[u] \in open_sessions'
      ]_vars

\* C21: every HTTP request the token fetch issues for an id is preceded by
\* an admission of the fetcher's rate limiter, and exactly one logical
\* request is issued per id.
C21_OneAdmittedRequestPerId ==
    \A t \in TokenIds :
        tk_req[t] # "pending" =>
            /\ Len(tk_http[t]) = 1
            /\ \A i \in 1..Len(tk_http[t]) : tk_http[t][i].admitted

\* The rows the save was given to write
SaveRows == {TokRow(tk_save.time, tokens_data[i]) :
                i \in {k \in 1..Len(tokens_data) : ~tokens_data[k].deleted}}

\* C25: each row write of the batch is idempotent. When every row of the
\* batch whose key is already in the table is there with the same values,
\* and the database does not fail, the save succeeds and the table ends up
\* as if each row had been written once.
C25_RowWriteIdempotent ==
    (/\ tk_save.done
     /\ tk_save.failAt = 0
     /\ SaveRows # {}
     /\ \A r \in SaveRows : \A x \in tk_save.prior :
            (x.timestamp = r.timestamp /\ x.token_id = r.token_id) => x = r)
    => /\ tk_save.ok
       /\ hedera_tokens = tk_save.prior \cup SaveRows

----------------------------------------------------------------------------
\* Claims about the mapping

\* The inputs the claim calls missing, null or non-numeric
Defaulting == {"missing", "null", "badstr", "list"}

\* The field of the record for a leaf: the default for a missing, null or
\* non-numeric one, the number otherwise.
Expected(x) == IF x.k \in Defaulting THEN 0 ELSE x.v

ExpectedUsd(obj) == IF obj.k = "dict" THEN Expected(obj.usd) ELSE 0

\* The payloads of the claim: a market_data object whose numeric fields,
\* and the per-currency objects that hold them, are numbers or are missing,
\* null or non-numeric.
ClaimedPayload ==
    /\ payload.market_data = "dict"
    /\ payload.current_price.k \in {"missing", "null", "dict"}
    /\ payload.current_price.usd.k # "inf"
    /\ payload.price_change_percentage_24h.k # "inf"
    /\ payload.market_cap_rank.k # "inf"

\* C8: for such a payload fetch_hbar_data returns a record, each field of
\* which is the default (0) where the input is missing, null or non-numeric
\* and the mapped number otherwise; it neither raises nor returns None.
C8_DefaultsNotDropped ==
    (mapped.state # "pending" /\ ClaimedPayload) =>
        /\ mapped.state = "record"
        /\ mapped.rec.price_usd = ExpectedUsd(payload.current_price)
        /\ mapped.rec.market_cap = ExpectedUsd(payload.market_cap)
        /\ mapped.rec.volume_24h = ExpectedUsd(payload.total_volume)
        /\ mapped.rec.price_change_24h = Expected(payload.price_change_percentage_24h)
        /\ mapped.rec.circulating_supply = Expected(payload.circulating_supply)
        /\ mapped.rec.market_cap_rank = Expected(payload.market_cap_rank)

----------------------------------------------------------------------------
\* Claims about the mapping of a token payload

\* The value the coercion policy gives a leaf: the default for a missing,
\* null, non-numeric or non-finite one, the number otherwise
Coerced(x) == IF x.k \in Defaulting \cup {"inf"} THEN 0 ELSE x.v

\* C28: every numeric field of a token payload goes through the coercion
\* helpers, which never raise: a record is built whatever the fields hold,
\* its decimals and total_supply are the coerced integers, and its holder
\* count is taken from the coerced balances.
C28_EveryNumericFieldCoerced ==
    token_data.state # "pending" =>
        /\ token_data.state = "record"
        /\ token_data.decimals = [k |-> "num", v |-> Coerced(token_info.decimals)]
        /\ token_data.total_supply = [k |-> "num", v |-> Coerced(token_info.total_supply)]
        /\ token_data.holders_count =
              Cardinality({i \in 1..Len(balances) : Coerced(balances[i]) > 0})

\* A balance that is a number strictly greater than zero
PositiveBalance(x) == (x.k \in {"num", "numstr"} /\ x.v > 0) \/ x.k = "inf"

\* C29: when the balances request succeeds, the holder count of the record
\* is the number of entries of the page whose balance is strictly greater
\* than zero.
C29_HoldersArePositiveBalances ==
    token_data.state = "record" =>
        token_data.holders_count =
            Cardinality({i \in 1..Len(balances) : PositiveBalance(balances[i])})

----------------------------------------------------------------------------
\* Claims about the read path

====
